---- MODULE Spec2Model ----
(***************************************************************************)
(* Student check-in kiosk and admin back office (CEG-Labs/cegdealer.com.app) *)
(*                                                                         *)
(* SpecEval     validateStudent as a pure function of student, settings,   *)
(*              wall clock and time zone (login view).                     *)
(* SpecLogin    the StudentLogin view: settings fetch, PIN lookup,         *)
(*              check-in, check-out, Cancel, and the administrator saving  *)
(*              settings on the server meanwhile.                          *)
(* SpecAgg      getLastCheckoutDate over a student's session list.         *)
(* SpecHistory  the session history view: delete a session, refetch.       *)
(* SpecFilter   filterStudents of the admin view as a pure function of the *)
(*              roster, the six filters and the time zone.                 *)
(* SpecPage     the pagination of the admin view: the page slice and the   *)
(*              page-number buttons.                                       *)
(* SpecCSV      generateRosterCSV and generateSessionsCSV.                 *)
(* SpecAdmin    the AdminPanel view: roster fetch, filters, sort headers,  *)
(*              page navigation.                                           *)
(* SpecLoginFair the login view with requests that are always answered.    *)
(* SpecDrawer   the drawer of AdminPanel: Add, Edit, History, closing and  *)
(*              the delayed resets.                                        *)
(* SpecSettings the AdminSettings page: settings fetch, toggles, save, and *)
(*              the server's settings records.                             *)
(* SpecRoster   the AdminPanel view with its requests: overlapping roster  *)
(*              fetches, student deletes and saves, the server's roster.   *)
(* SpecRosterPages the same panel with its filter, sort header and page   *)
(*              buttons while the roster is fetched and students deleted.  *)
(***************************************************************************)
EXTENDS Integers, Sequences, FiniteSets, TLC

VARIABLES
    \* ---- SpecEval: inputs and result of one validateStudent call
    evIn, evOut,
    \* ---- SpecAgg: input student and result of getLastCheckoutDate
    aggIn, aggOut,
    \* ---- SpecLogin: React state of StudentLogin (part_000:9-16)
    pin, student, loading, error, success, hasActiveSession, settings,
    validationError,
    \* ---- SpecLogin: environment and requests in flight
    serverSettings,   \* the settings record stored on the server, or NULL
    settingsReq,      \* GET /settings of the mount effect: "pending", then
                      \* "resolved" | "empty" (body []) | "failed" (threw)
    pinReq,           \* handlePinSubmit awaiting GET /users?pin= , or NULL
    actReq,           \* handleCheckin / handleCheckout awaiting its POST, or NULL
    clock,            \* [now, tz]: wall clock instant and time zone of the kiosk
    timers,           \* pending setTimeout(() => setSuccess(""), 3000) calls
    \* ---- SpecHistory: React state of the history view and its environment
    hStudent,         \* student state of the panel: the fetched record, or NULL
    hLoading,
    hError,
    hServer,          \* the student's session list as stored on the server
    hNet,             \* requests and responses in flight (a set of records)
    hDeletes,         \* Delete clicks so far; the k-th click and the requests
                      \* that follow from it carry the id k
    \* ---- SpecFilter, SpecPage, SpecCSV: one call of a function of the admin
    \* view, [fn, arguments], and its result
    fnIn, fnOut,
    \* ---- SpecAdmin: React state of AdminPanel (index.js:184-201)
    students, filteredStudents, aLoading, aError,
    searchTerm, statusFilter, gameFilter,
    registrationDateFilter, endOfClassDateFilter, endOfPracticeDateFilter,
    currentPage, sortColumn, sortDirection,
    \* ---- SpecAdmin: environment
    srvStudents,      \* the roster stored on the server
    rosterReq,        \* GET /users of the mount effect: "pending", then
                      \* "resolved" | "failed"
    aTz,              \* time zone of the administrator's browser
    aEvent,           \* the handler of the view that ran last
    \* ---- SpecDrawer: the drawer of AdminPanel (index.js:188-190, 201)
    drawerOpen, editingStudent, showAddForm, historyStudent,
    drawerTimers,     \* pending setTimeout(..., 300) resets, oldest first
    \* ---- SpecSettings: React state of AdminSettings (settings.js:9-18),
    \* named settings, loading, saving, error and success in the source
    sSettings, sLoading, sSaving, sError, sSuccess,
    \* ---- SpecSettings: environment
    sServer,          \* the settings records stored on the server, in order
    sReq,             \* the request of the page that is in flight, or NULL
    \* ---- SpecRoster: AdminPanel with its requests (the React state is that
    \* of SpecAdmin) and the StudentForm of the drawer (index.js:1209-1222),
    \* whose loading and error are named fLoading and fError here
    aNet,             \* requests and responses of the panel in flight
    aIssued,          \* fetchStudents calls so far; the k-th has the id k
    aApplied,         \* the id of the fetch whose response students holds
    aOps,             \* Delete and Save clicks so far
    formData,         \* formData of the mounted form, or NULL
    fLoading, fError

vars == <<evIn, evOut, aggIn, aggOut,
          pin, student, loading, error, success, hasActiveSession, settings,
          validationError, serverSettings, settingsReq, pinReq, actReq, clock,
          timers, hStudent, hLoading, hError, hServer, hNet, hDeletes,
          fnIn, fnOut,
          students, filteredStudents, aLoading, aError,
          searchTerm, statusFilter, gameFilter,
          registrationDateFilter, endOfClassDateFilter,
          endOfPracticeDateFilter, currentPage, sortColumn, sortDirection,
          srvStudents, rosterReq, aTz, aEvent,
          drawerOpen, editingStudent, showAddForm, historyStudent,
          drawerTimers,
          sSettings, sLoading, sSaving, sError, sSuccess, sServer, sReq,
          aNet, aIssued, aApplied, aOps, formData, fLoading, fError>>

evalVars == <<evIn, evOut>>
aggVars == <<aggIn, aggOut>>
loginVars == <<pin, student, loading, error, success, hasActiveSession,
               settings, validationError, serverSettings, settingsReq, pinReq,
               actReq, clock, timers>>
historyVars == <<hStudent, hLoading, hError, hServer, hNet, hDeletes>>
fnVars == <<fnIn, fnOut>>
filterVars == <<searchTerm, statusFilter, gameFilter, registrationDateFilter,
                endOfClassDateFilter, endOfPracticeDateFilter>>
drawerVars == <<drawerOpen, editingStudent, showAddForm, historyStudent,
                drawerTimers>>
\* the state of the back office that SpecAdmin leaves alone
settingsPageVars == <<sSettings, sLoading, sSaving, sError, sSuccess,
                      sServer, sReq>>
rosterNetVars == <<aNet, aIssued, aApplied, aOps>>
formVars == <<formData, fLoading, fError>>
officeVars == <<drawerVars, settingsPageVars, rosterNetVars, formVars>>
adminVars == <<students, filteredStudents, aLoading, aError, filterVars,
               currentPage, sortColumn, sortDirection, srvStudents, rosterReq,
               aTz, aEvent, officeVars>>

-----------------------------------------------------------------------------
(* Values                                                                  *)

\* JavaScript null in a place that otherwise holds an object.  An absent
\* date or timestamp is 0, an absent status is "", an absent property of an
\* object is a field the record does not have.
NULL == [null |-> TRUE]

\* Bounds of the model
MaxDay == 3          \* calendar days 1..MaxDay
MaxSessions == 2     \* longest session list
MaxTime == 3         \* session timestamps 1..MaxTime
MaxTimers == 1       \* pending success timeouts of the login view
MaxDeletes == 2      \* Delete clicks in the session history panel

\* A day has DayLen clock ticks (a tick is six hours)
DayLen == 4

\* Time zones of the kiosk, as the offset of local time from UTC in ticks
TZOffsets == {-1, 0, 1}

\* The statuses of the model: a blockable one, a second one, and the empty
\* status of the student form
BlockableStatuses == {"Current Student", "Suspended"}
StudentStatuses == BlockableStatuses \cup {""}

Days == 1..MaxDay
Instants == DayLen .. ((MaxDay + 1) * DayLen - 1)

\* A stored calendar date is the date-only string the student form sends
\* ("YYYY-MM-DD", here the number of the day); 0 when the field is empty
DateFields == Days \cup {0}

-----------------------------------------------------------------------------
(* Dates                                                                   *)

\* new Date("YYYY-MM-DD"): a date-only string is parsed as UTC midnight
ParseDate(d) == d * DayLen

\* date.setHours(0, 0, 0, 0): midnight of the LOCAL calendar day of the instant
SetHoursZero(t, tz) == ((t + tz) \div DayLen) * DayLen - tz

\* the local calendar day of an instant
LocalDay(t, tz) == (t + tz) \div DayLen

-----------------------------------------------------------------------------
(* validateStudent                                                         *)

StatusMessage(status) ==
    <<"Students with status \"", status, "\" are not allowed to check in.">>
ClassMessage ==
    <<"Your class end date has passed. Please contact administration.">>
PracticeMessage ==
    <<"Your practice end date has passed. Please contact administration.">>

Valid == [valid |-> TRUE]
Invalid(m) == [valid |-> FALSE, message |-> m]

\* the client-side default of the login view
DefaultSettings ==
    [blockedStatuses |-> {"Suspended"},
     enforceClassEndDate |-> FALSE,
     enforcePracticeEndDate |-> FALSE]

SettingsObjects ==
    [blockedStatuses : SUBSET BlockableStatuses,
     enforceClassEndDate : BOOLEAN,
     enforcePracticeEndDate : BOOLEAN]

\* mutant: only the default status is ever looked at
StatusBlocked_OnlySuspended(studentData, s) ==
    /\ s.blockedStatuses # {}
    /\ studentData.status = "Suspended"
    /\ studentData.status \in s.blockedStatuses

StatusBlocked(studentData, s) ==
    /\ s.blockedStatuses # {}
    /\ studentData.status # ""
    /\ studentData.status \in s.blockedStatuses

\* today > endDate, both truncated with setHours(0,0,0,0)
DatePassed(dateField, now, tz) ==
    SetHoursZero(now, tz) > SetHoursZero(ParseDate(dateField), tz)

ClassDatePassed(studentData, s, now, tz) ==
    /\ s.enforceClassEndDate
    /\ studentData.endOfClassDate # 0
    /\ DatePassed(studentData.endOfClassDate, now, tz)

PracticeDatePassed(studentData, s, now, tz) ==
    /\ s.enforcePracticeEndDate
    /\ studentData.endOfPracticeDate # 0
    /\ DatePassed(studentData.endOfPracticeDate, now, tz)

\* mutant: the practice rule is consulted before the class rule
validateStudent_PracticeFirst(studentData, s, now, tz) ==
    IF s = NULL THEN Valid
    ELSE IF StatusBlocked(studentData, s)
         THEN Invalid(StatusMessage(studentData.status))
    ELSE IF PracticeDatePassed(studentData, s, now, tz)
         THEN Invalid(PracticeMessage)
    ELSE IF ClassDatePassed(studentData, s, now, tz)
         THEN Invalid(ClassMessage)
    ELSE Valid

validateStudent(studentData, s, now, tz) ==
    IF s = NULL THEN Valid
    ELSE IF StatusBlocked(studentData, s)
         THEN Invalid(StatusMessage(studentData.status))
    ELSE IF ClassDatePassed(studentData, s, now, tz)
         THEN Invalid(ClassMessage)
    ELSE IF PracticeDatePassed(studentData, s, now, tz)
         THEN Invalid(PracticeMessage)
    ELSE Valid

-----------------------------------------------------------------------------
(* SpecEval: validateStudent applied to every student, settings object,    *)
(* instant and time zone of the bounds                                     *)

EvalStudents ==
    [status : StudentStatuses,
     endOfClassDate : DateFields,
     endOfPracticeDate : DateFields]

IdleEval == evIn = NULL /\ evOut = NULL
IdleAgg == aggIn = NULL /\ aggOut = NULL
IdleLogin ==
    /\ pin = "" /\ student = NULL /\ loading = FALSE /\ error = ""
    /\ success = "" /\ hasActiveSession = "false" /\ settings = NULL
    /\ validationError = <<>> /\ serverSettings = NULL
    /\ settingsReq = "idle" /\ pinReq = NULL /\ actReq = NULL
    /\ clock = NULL /\ timers = 0
IdleHistory ==
    /\ hStudent = NULL /\ hLoading = FALSE /\ hError = "" /\ hServer = <<>>
    /\ hNet = {} /\ hDeletes = 0
IdleFn == fnIn = NULL /\ fnOut = NULL
IdleDrawer ==
    /\ drawerOpen = FALSE /\ editingStudent = NULL /\ showAddForm = FALSE
    /\ historyStudent = NULL /\ drawerTimers = <<>>

\* the settings page is not mounted
IdleSettings ==
    /\ sSettings = NULL /\ sLoading = FALSE /\ sSaving = FALSE
    /\ sError = "" /\ sSuccess = "" /\ sServer = <<>> /\ sReq = NULL

\* no request of the panel is in flight and no form is mounted
IdleRoster ==
    /\ aNet = {} /\ aIssued = 0 /\ aApplied = 0 /\ aOps = 0
    /\ formData = NULL /\ fLoading = FALSE /\ fError = ""

IdleOffice == IdleDrawer /\ IdleSettings /\ IdleRoster

IdlePanel ==
    /\ students = <<>> /\ filteredStudents = <<>>
    /\ aLoading = FALSE /\ aError = ""
    /\ searchTerm = <<>> /\ statusFilter = "" /\ gameFilter = ""
    /\ registrationDateFilter = 0 /\ endOfClassDateFilter = 0
    /\ endOfPracticeDateFilter = 0
    /\ currentPage = 1 /\ sortColumn = "lastName" /\ sortDirection = "asc"
    /\ srvStudents = <<>> /\ rosterReq = "idle" /\ aTz = 0
    /\ aEvent = NULL

IdleAdmin == IdlePanel /\ IdleOffice

InitEval ==
    /\ evIn \in [studentData : EvalStudents,
                  settings : SettingsObjects \cup {NULL},
                  now : Instants,
                  tz : TZOffsets]
    /\ evOut = NULL
    /\ IdleAgg /\ IdleLogin /\ IdleHistory /\ IdleFn /\ IdleAdmin

Evaluate ==
    /\ evIn # NULL
    /\ evOut = NULL
    /\ evOut' = validateStudent(evIn.studentData, evIn.settings,
                                evIn.now, evIn.tz)
    /\ UNCHANGED <<evIn, aggVars, loginVars, historyVars, fnVars, adminVars>>

NextEval == Evaluate
SpecEval == InitEval /\ [][NextEval]_vars

EvalDone == evOut # NULL /\ evIn.settings # NULL

\* C1: a student whose status is in settings.blockedStatuses is not allowed,
\* with a message that names the status, whatever the two end dates and the
\* two enforcement flags are.
C1_BlockedStatusRejected ==
    (EvalDone /\ evIn.studentData.status \in evIn.settings.blockedStatuses)
    => /\ evOut.valid = FALSE
       /\ \E i \in DOMAIN evOut.message :
              evOut.message[i] = evIn.studentData.status

\* a blocked student whose class end date lies in the future, dates not
\* enforced, has been rejected
C1_Witness ==
    /\ EvalDone
    /\ evIn.studentData.status = "Current Student"
    /\ evIn.settings.blockedStatuses = {"Current Student"}
    /\ ~evIn.settings.enforceClassEndDate
    /\ evIn.studentData.endOfClassDate > LocalDay(evIn.now, evIn.tz)
    /\ evOut.valid = FALSE

\* C4: with enforceClassEndDate and an endOfClassDate set (and no other rule
\* applying), the student is not allowed exactly when the end date is
\* strictly before today's calendar date: allowed on day D, first blocked on
\* day D+1.
C4_ClassEndDateBoundary ==
    (/\ EvalDone
     /\ evIn.settings.enforceClassEndDate
     /\ evIn.studentData.endOfClassDate # 0
     /\ evIn.studentData.status \notin evIn.settings.blockedStatuses
     /\ ~evIn.settings.enforcePracticeEndDate)
    => (evOut.valid = FALSE
          <=> evIn.studentData.endOfClassDate < LocalDay(evIn.now, evIn.tz))

\* C5: the rules are applied in the order blocked status, class end date,
\* practice end date; the first failing rule gives the reason; the student
\* is allowed exactly when no rule fails.
C5_RuleOrder ==
    EvalDone =>
      LET st == evIn.studentData
          s == evIn.settings
          statusFails == st.status \in s.blockedStatuses
          classFails == /\ s.enforceClassEndDate
                        /\ st.endOfClassDate # 0
                        /\ DatePassed(st.endOfClassDate, evIn.now, evIn.tz)
          practiceFails == /\ s.enforcePracticeEndDate
                           /\ st.endOfPracticeDate # 0
                           /\ DatePassed(st.endOfPracticeDate, evIn.now, evIn.tz)
      IN /\ statusFails => evOut = Invalid(StatusMessage(st.status))
         /\ (~statusFails /\ classFails) => evOut = Invalid(ClassMessage)
         /\ (~statusFails /\ ~classFails /\ practiceFails)
               => evOut = Invalid(PracticeMessage)
         /\ evOut.valid <=> ~(statusFails \/ classFails \/ practiceFails)

\* both date rules fail for a student whose status is not blocked: the class
\* rule gave the reason
C5_Witness ==
    /\ EvalDone
    /\ evIn.studentData.status \notin evIn.settings.blockedStatuses
    /\ evIn.settings.enforceClassEndDate
    /\ evIn.settings.enforcePracticeEndDate
    /\ evIn.studentData.endOfClassDate # 0
    /\ evIn.studentData.endOfPracticeDate # 0
    /\ DatePassed(evIn.studentData.endOfClassDate, evIn.now, evIn.tz)
    /\ DatePassed(evIn.studentData.endOfPracticeDate, evIn.now, evIn.tz)
    /\ evOut = Invalid(ClassMessage)

-----------------------------------------------------------------------------
(* Session lists                                                           *)

\* a session: checkin and checkout timestamps, 0 when absent
Sessions == [checkin : 0..MaxTime, checkout : 0..MaxTime]

SeqsUpTo(S, n) == UNION {[1..k -> S] : k \in 0..n}

\* Array.prototype.sort((a, b) => new Date(b[key]) - new Date(a[key])):
\* a stable sort, descending in the key
RECURSIVE InsertDesc(_, _, _)
InsertDesc(x, sorted, key) ==
    IF sorted = <<>> THEN <<x>>
    ELSE IF sorted[1][key] - x[key] < 0
         THEN <<x>> \o sorted
         ELSE <<sorted[1]>> \o InsertDesc(x, Tail(sorted), key)

RECURSIVE SortDesc(_, _)
SortDesc(seq, key) ==
    IF seq = <<>> THEN <<>>
    ELSE InsertDesc(seq[Len(seq)], SortDesc(SubSeq(seq, 1, Len(seq) - 1), key),
                    key)

\* the same sort with the comparator the other way round (a - b)
RECURSIVE InsertAsc(_, _, _)
InsertAsc(x, sorted, key) ==
    IF sorted = <<>> THEN <<x>>
    ELSE IF x[key] - sorted[1][key] < 0
         THEN <<x>> \o sorted
         ELSE <<sorted[1]>> \o InsertAsc(x, Tail(sorted), key)

RECURSIVE SortAsc(_, _)
SortAsc(seq, key) ==
    IF seq = <<>> THEN <<>>
    ELSE InsertAsc(seq[Len(seq)], SortAsc(SubSeq(seq, 1, Len(seq) - 1), key),
                   key)

HasCheckout(s) == s.checkout # 0

\* mutant: the comparator sorts ascending, so [0] is the earliest checkout
getLastCheckoutDate_Ascending(st) ==
    IF "sessions" \notin DOMAIN st \/ Len(st.sessions) = 0
    THEN [ret |-> 0, student |-> st]
    ELSE LET sessionsWithCheckout == SelectSeq(st.sessions, HasCheckout)
         IN IF Len(sessionsWithCheckout) = 0
            THEN [ret |-> 0, student |-> st]
            ELSE [ret |-> SortAsc(sessionsWithCheckout, "checkout")[1].checkout,
                  student |-> st]

\* getLastCheckoutDate(student): the value returned (0 for null) and the
\* student object after the call.  filter() builds a new array, which is the
\* one sort() reorders in place; student.sessions is not written.
getLastCheckoutDate(st) ==
    IF "sessions" \notin DOMAIN st \/ Len(st.sessions) = 0
    THEN [ret |-> 0, student |-> st]
    ELSE LET sessionsWithCheckout == SelectSeq(st.sessions, HasCheckout)
             sortedSessions == SortDesc(sessionsWithCheckout, "checkout")
         IN IF Len(sessionsWithCheckout) = 0
            THEN [ret |-> 0, student |-> st]
            ELSE [ret |-> sortedSessions[1].checkout, student |-> st]

-----------------------------------------------------------------------------
(* SpecAgg: getLastCheckoutDate applied to every session list of the bounds *)

AggStudents ==
    {[id |-> 1]} \cup [id : {1}, sessions : SeqsUpTo(Sessions, MaxSessions)]

InitAgg ==
    /\ aggIn \in AggStudents
    /\ aggOut = NULL
    /\ IdleEval /\ IdleLogin /\ IdleHistory /\ IdleFn /\ IdleAdmin

CallGetLastCheckoutDate ==
    /\ aggIn # NULL
    /\ aggOut = NULL
    /\ aggOut' = getLastCheckoutDate(aggIn)
    /\ UNCHANGED <<aggIn, evalVars, loginVars, historyVars, fnVars, adminVars>>

NextAgg == CallGetLastCheckoutDate
SpecAgg == InitAgg /\ [][NextAgg]_vars

Checkouts(st) ==
    IF "sessions" \notin DOMAIN st THEN {}
    ELSE {st.sessions[i].checkout : i \in DOMAIN st.sessions} \ {0}

\* C9: getLastCheckoutDate returns the maximum checkout over the sessions
\* that have one (so the order of the list does not matter), null when no
\* session has a checkout, and leaves the student's session list unchanged.
C9_LastCheckoutIsMax ==
    aggOut # NULL =>
      /\ Checkouts(aggIn) = {} => aggOut.ret = 0
      /\ Checkouts(aggIn) # {} =>
            /\ aggOut.ret \in Checkouts(aggIn)
            /\ \A c \in Checkouts(aggIn) : c <= aggOut.ret
      /\ aggOut.student = aggIn

\* a full list whose first and last sessions are closed, the last one with
\* the later checkout: the result is not the checkout of the first session
C9_Witness ==
    /\ aggOut # NULL
    /\ "sessions" \in DOMAIN aggIn
    /\ Len(aggIn.sessions) = MaxSessions
    /\ aggIn.sessions[1].checkout > 0
    /\ aggIn.sessions[1].checkout < aggIn.sessions[Len(aggIn.sessions)].checkout
    /\ aggOut.ret = aggIn.sessions[Len(aggIn.sessions)].checkout

-----------------------------------------------------------------------------
(* SpecLogin: the StudentLogin view                                        *)

Pins == {"1234"}

OpenSession == [checkin |-> 1, checkout |-> 0]
ClosedSession == [checkin |-> 1, checkout |-> 2]
NoCheckinSession == [checkin |-> 0, checkout |-> 0]

\* the session lists a looked-up student arrives with
LoginSessionLists ==
    {<<>>, <<OpenSession>>, <<ClosedSession>>, <<ClosedSession, OpenSession>>,
     <<OpenSession, OpenSession>>, <<NoCheckinSession>>}

\* the student records GET /users?pin= answers with: every status and end
\* dates absent, in the past and today or later, without and with an open
\* session; and, for a current student without end dates, every session
\* list above and no sessions property at all
LoginDates == {0, 1, MaxDay}
LoginStudents ==
    [_id : {1}, status : StudentStatuses, endOfClassDate : LoginDates,
     endOfPracticeDate : {0, 1}, sessions : {<<>>, <<OpenSession>>}]
    \cup
    [_id : {1}, status : {"Current Student"}, endOfClassDate : {0},
     endOfPracticeDate : {0}, sessions : LoginSessionLists]
    \cup
    [_id : {1}, status : {"Current Student"}, endOfClassDate : {0},
     endOfPracticeDate : {0}]

\* foundStudent.sessions?.filter((session) => session.checkin && !session.checkout)
IsActive(session) == session.checkin # 0 /\ session.checkout = 0

\* mutant: more than one open session is not counted as an active session
ActiveSessionFlag_ExactlyOne(foundStudent) ==
    IF "sessions" \notin DOMAIN foundStudent THEN "undefined"
    ELSE IF Len(SelectSeq(foundStudent.sessions,
                          LAMBDA x : x.checkin # 0 /\ x.checkout = 0)) = 1
         THEN "true"
    ELSE "false"

\* the value handed to setHasActiveSession: activeSessions && activeSessions.length > 0
\* ("undefined" when the student has no sessions property)
ActiveSessionFlag(foundStudent) ==
    IF "sessions" \notin DOMAIN foundStudent THEN "undefined"
    ELSE IF Len(SelectSeq(foundStudent.sessions, IsActive)) > 0 THEN "true"
    ELSE "false"

\* what the body of GET /settings holds: [record] or []
SettingsBody(stored) == IF stored = NULL THEN <<>> ELSE <<stored>>

\* data[0] || { default }
FirstOrDefault(data) == IF Len(data) > 0 THEN data[1] ELSE DefaultSettings

InitLogin ==
    /\ pin = "" /\ student = NULL /\ loading = FALSE /\ error = ""
    /\ success = "" /\ hasActiveSession = "false" /\ settings = NULL
    /\ validationError = <<>>
    /\ serverSettings \in SettingsObjects \cup {NULL}
    /\ settingsReq = "pending"
    /\ pinReq = NULL /\ actReq = NULL
    /\ clock \in [now : {2 * DayLen + 1}, tz : {0}]
    /\ timers = 0
    /\ IdleEval /\ IdleAgg /\ IdleHistory /\ IdleFn /\ IdleAdmin

loginOther == <<evalVars, aggVars, historyVars, fnVars, adminVars>>

\* fetchSettings: the response arrives and parses
FetchSettingsResolve ==
    /\ settingsReq = "pending"
    /\ settings' = FirstOrDefault(SettingsBody(serverSettings))
    /\ settingsReq' = IF SettingsBody(serverSettings) = <<>> THEN "empty"
                      ELSE "resolved"
    /\ UNCHANGED <<pin, student, loading, error, success, hasActiveSession,
                   validationError, serverSettings, pinReq, actReq, clock,
                   timers, loginOther>>

\* fetchSettings: fetch or response.json() throws
FetchSettingsFail ==
    /\ settingsReq = "pending"
    /\ settings' = DefaultSettings
    /\ settingsReq' = "failed"
    /\ UNCHANGED <<pin, student, loading, error, success, hasActiveSession,
                   validationError, serverSettings, pinReq, actReq, clock,
                   timers, loginOther>>

\* the administrator saves settings (admin/settings.js handleSave succeeds)
AdminSaveSettings ==
    /\ \E s \in SettingsObjects :
          /\ s # serverSettings
          /\ serverSettings' = s
    /\ UNCHANGED <<pin, student, loading, error, success, hasActiveSession,
                   settings, validationError, settingsReq, pinReq, actReq,
                   clock, timers, loginOther>>

\* the PIN input: onChange={(e) => setPin(e.target.value)}
PinChange ==
    /\ student = NULL /\ ~loading
    /\ \E p \in Pins \cup {""} : p # pin /\ pin' = p
    /\ UNCHANGED <<student, loading, error, success, hasActiveSession,
                   settings, validationError, serverSettings, settingsReq,
                   pinReq, actReq, clock, timers, loginOther>>

\* handlePinSubmit up to its first await.  The handler, and the
\* validateStudent it calls after the await, close over the settings of the
\* render in which the button was clicked.
PinSubmit ==
    /\ student = NULL /\ ~loading /\ pin # ""
    /\ loading' = TRUE
    /\ error' = ""
    /\ validationError' = <<>>
    /\ pinReq' = [stage |-> "sent", settings |-> settings]
    /\ UNCHANGED <<pin, student, success, hasActiveSession, settings,
                   serverSettings, settingsReq, actReq, clock, timers,
                   loginOther>>

PinResponses ==
    [kind : {"found"}, student : LoginStudents]
    \cup {[kind |-> "empty"], [kind |-> "notOk"], [kind |-> "throw"]}

\* GET /users?pin= is answered (or fails)
PinResponseArrives ==
    /\ pinReq # NULL /\ pinReq.stage = "sent"
    /\ \E r \in PinResponses :
          pinReq' = [stage |-> "response", settings |-> pinReq.settings,
                     resp |-> r]
    /\ UNCHANGED <<pin, student, loading, error, success, hasActiveSession,
                   settings, validationError, serverSettings, settingsReq,
                   actReq, clock, timers, loginOther>>

\* handlePinSubmit after the await
PinSubmitContinue ==
    /\ pinReq # NULL /\ pinReq.stage = "response"
    /\ LET r == pinReq.resp IN
         CASE r.kind = "found" ->
                LET validation == validateStudent(r.student, pinReq.settings,
                                                  clock.now, clock.tz)
                IN IF ~validation.valid
                   THEN /\ validationError' = validation.message
                        /\ student' = NULL
                        /\ UNCHANGED <<error, hasActiveSession>>
                   ELSE /\ student' = r.student
                        /\ hasActiveSession' = ActiveSessionFlag(r.student)
                        /\ UNCHANGED <<error, validationError>>
           [] r.kind \in {"empty", "notOk"} ->
                /\ error' = "Student not found. Please check your PIN."
                /\ student' = NULL
                /\ UNCHANGED <<hasActiveSession, validationError>>
           [] r.kind = "throw" ->
                /\ error' = "Error connecting to server."
                /\ student' = NULL
                /\ UNCHANGED <<hasActiveSession, validationError>>
    /\ loading' = FALSE
    /\ pinReq' = NULL
    /\ UNCHANGED <<pin, success, settings, serverSettings, settingsReq,
                   actReq, clock, timers, loginOther>>

ActOutcomes == {"ok", "notOkError", "notOkNoError", "notOkBadBody", "throw"}

\* the error text of a non-2xx body that carries one
ServerErrorText == "server error text"

\* handleCheckin up to its await (the green button is rendered for a student
\* when !hasActiveSession and is disabled while loading)
handleCheckin ==
    /\ student # NULL /\ hasActiveSession # "true" /\ ~loading
    /\ LET validation == validateStudent(student, settings, clock.now, clock.tz)
       IN IF ~validation.valid
          THEN /\ validationError' = validation.message
               /\ UNCHANGED <<loading, error, success, actReq>>
          ELSE /\ loading' = TRUE
               /\ error' = ""
               /\ success' = ""
               /\ actReq' = [kind |-> "checkin", id |-> student._id]
               /\ UNCHANGED validationError
    /\ UNCHANGED <<pin, student, hasActiveSession, settings, serverSettings,
                   settingsReq, pinReq, clock, timers, loginOther>>

\* handleCheckout up to its await (the red button, rendered when
\* hasActiveSession)
handleCheckout ==
    /\ student # NULL /\ hasActiveSession = "true" /\ ~loading
    /\ loading' = TRUE
    /\ error' = ""
    /\ success' = ""
    /\ actReq' = [kind |-> "checkout", id |-> student._id]
    /\ UNCHANGED <<pin, student, hasActiveSession, settings, validationError,
                   serverSettings, settingsReq, pinReq, clock, timers,
                   loginOther>>

\* mutant: loading is not reset when the body of a failed response cannot
\* be parsed
ActContinue_NoFinally(kind, okText, failText) ==
    /\ actReq # NULL /\ actReq.kind = kind
    /\ \E o \in ActOutcomes :
          CASE o = "ok" ->
                 /\ timers < MaxTimers
                 /\ success' = okText
                 /\ student' = NULL
                 /\ pin' = ""
                 /\ hasActiveSession' = "false"
                 /\ timers' = timers + 1
                 /\ UNCHANGED error
            [] o = "notOkError" ->
                 /\ error' = ServerErrorText
                 /\ UNCHANGED <<success, student, pin, hasActiveSession, timers>>
            [] o = "notOkNoError" ->
                 /\ error' = failText
                 /\ UNCHANGED <<success, student, pin, hasActiveSession, timers>>
            [] o \in {"notOkBadBody", "throw"} ->
                 /\ error' = "Error connecting to server."
                 /\ UNCHANGED <<success, student, pin, hasActiveSession, timers>>
    /\ loading' = (actReq.kind = "checkin" /\ error' = "Error connecting to server.")
    /\ actReq' = NULL
    /\ UNCHANGED <<settings, validationError, serverSettings, settingsReq,
                   pinReq, clock, loginOther>>

\* mutant: a request that fails on the network is sent again
ActContinue_Retry(kind, okText, failText) ==
    /\ actReq # NULL /\ actReq.kind = kind
    /\ \E o \in ActOutcomes :
          CASE o = "ok" ->
                 /\ timers < MaxTimers
                 /\ success' = okText
                 /\ student' = NULL
                 /\ pin' = ""
                 /\ hasActiveSession' = "false"
                 /\ timers' = timers + 1
                 /\ loading' = FALSE
                 /\ actReq' = NULL
                 /\ UNCHANGED error
            [] o = "notOkError" ->
                 /\ error' = ServerErrorText
                 /\ loading' = FALSE
                 /\ actReq' = NULL
                 /\ UNCHANGED <<success, student, pin, hasActiveSession, timers>>
            [] o = "notOkNoError" ->
                 /\ error' = failText
                 /\ loading' = FALSE
                 /\ actReq' = NULL
                 /\ UNCHANGED <<success, student, pin, hasActiveSession, timers>>
            [] o \in {"notOkBadBody", "throw"} ->
                 /\ error' = "Error connecting to server."
                 /\ UNCHANGED <<loading, actReq>>
                 /\ UNCHANGED <<success, student, pin, hasActiveSession, timers>>
    /\ UNCHANGED <<settings, validationError, serverSettings, settingsReq,
                   pinReq, clock, loginOther>>

\* the rest of handleCheckin / handleCheckout once the POST is answered
ActContinue(kind, okText, failText) ==
    /\ actReq # NULL /\ actReq.kind = kind
    /\ \E o \in ActOutcomes :
          CASE o = "ok" ->
                 /\ timers < MaxTimers
                 /\ success' = okText
                 /\ student' = NULL
                 /\ pin' = ""
                 /\ hasActiveSession' = "false"
                 /\ timers' = timers + 1
                 /\ UNCHANGED error
            [] o = "notOkError" ->
                 /\ error' = ServerErrorText
                 /\ UNCHANGED <<success, student, pin, hasActiveSession, timers>>
            [] o = "notOkNoError" ->
                 /\ error' = failText
                 /\ UNCHANGED <<success, student, pin, hasActiveSession, timers>>
            [] o \in {"notOkBadBody", "throw"} ->
                 /\ error' = "Error connecting to server."
                 /\ UNCHANGED <<success, student, pin, hasActiveSession, timers>>
    /\ loading' = FALSE
    /\ actReq' = NULL
    /\ UNCHANGED <<settings, validationError, serverSettings, settingsReq,
                   pinReq, clock, loginOther>>

handleCheckinContinue ==
    ActContinue("checkin", "Check-in successful!",
                "Failed to check in. Please try again.")

handleCheckoutContinue ==
    ActContinue("checkout", "Check-out successful!",
                "Failed to check out. Please try again.")

\* mutant: Cancel leaves the active-session flag as it is
Cancel_KeepFlag ==
    /\ student # NULL
    /\ student' = NULL
    /\ pin' = ""
    /\ error' = ""
    /\ validationError' = <<>>
    /\ UNCHANGED <<hasActiveSession, loading, success, settings,
                   serverSettings, settingsReq, pinReq, actReq, clock, timers,
                   loginOther>>

\* the Cancel button (rendered for a student; not disabled while loading)
Cancel ==
    /\ student # NULL
    /\ student' = NULL
    /\ pin' = ""
    /\ error' = ""
    /\ validationError' = <<>>
    /\ hasActiveSession' = "false"
    /\ UNCHANGED <<loading, success, settings, serverSettings, settingsReq,
                   pinReq, actReq, clock, timers, loginOther>>

\* setTimeout(() => setSuccess(""), 3000) fires
SuccessTimeout ==
    /\ timers > 0
    /\ success' = ""
    /\ timers' = timers - 1
    /\ UNCHANGED <<pin, student, loading, error, hasActiveSession, settings,
                   validationError, serverSettings, settingsReq, pinReq,
                   actReq, clock, loginOther>>

NextLogin ==
    \/ FetchSettingsResolve
    \/ FetchSettingsFail
    \/ AdminSaveSettings
    \/ PinChange
    \/ PinSubmit
    \/ PinResponseArrives
    \/ PinSubmitContinue
    \/ handleCheckin
    \/ handleCheckinContinue
    \/ handleCheckout
    \/ handleCheckoutContinue
    \/ Cancel
    \/ SuccessTimeout

SpecLogin == InitLogin /\ [][NextLogin]_vars

LoginTypeOK ==
    /\ pin \in Pins \cup {""}
    /\ student \in LoginStudents \cup {NULL}
    /\ loading \in BOOLEAN
    /\ hasActiveSession \in {"true", "false", "undefined"}
    /\ settings \in SettingsObjects \cup {NULL}
    /\ timers \in 0..MaxTimers

\* the settings a fetch of GET /settings would yield now
ServerEffective == FirstOrDefault(SettingsBody(serverSettings))

\* what the claims call the effective settings: those stored on the server,
\* the fallback when the fetch of the view failed
Effective ==
    IF settingsReq = "failed" THEN DefaultSettings ELSE ServerEffective

\* a step of handlePinSubmit that looked up a student and decided on them
PinDecision ==
    /\ pinReq # NULL /\ pinReq.stage = "response"
    /\ pinReq.resp.kind = "found"
    /\ pinReq' = NULL

\* a step that sends the check-in request
CheckinSent ==
    actReq = NULL /\ actReq' # NULL /\ actReq'.kind = "checkin"

\* C2: no student is admitted to the check-in/check-out screen, and no
\* check-in request is sent, while the student's status is blocked under the
\* effective settings, for every interleaving of the settings fetch with
\* PIN submission.
C2_NoBlockedAdmission ==
    [][/\ (student = NULL /\ student' # NULL)
            => student'.status \notin Effective.blockedStatuses
       /\ CheckinSent => student.status \notin Effective.blockedStatuses]_vars

\* C3: the eligibility settings do not affect a student who is already
\* checked in: a PIN lookup that finds a student with an active session
\* admits the student (so that check-out can follow), whatever the settings.
C3_CheckedInStudentAdmitted ==
    [][(PinDecision /\ ActiveSessionFlag(pinReq.resp.student) = "true")
         => student' = pinReq.resp.student]_vars

\* C6: when the settings fetch fails or returns an empty list, the settings
\* of the view are exactly the fallback, every eligibility check taken from
\* then on (at PIN lookup or at check-in confirmation) decides with them,
\* and PIN login stays possible: of the students found, exactly those who
\* are not Suspended are admitted.
C6_FallbackSettings ==
    [][/\ settingsReq' \in {"failed", "empty"} => settings' = DefaultSettings
       /\ (settingsReq \in {"failed", "empty"} /\ PinDecision)
            => (student' # NULL
                  <=> pinReq.resp.student.status # "Suspended")
       /\ (settingsReq \in {"failed", "empty"} /\ CheckinSent)
            => student.status # "Suspended"]_vars

\* What holds of the fallback: the view's settings are the fallback once the
\* fetch has failed or come back empty, and every PIN submission made from
\* then on is decided with them.  (A lookup that was submitted while the
\* fetch was pending is decided with the settings of its own render, null.)
FallbackForLaterSubmissions ==
    [][/\ settingsReq' \in {"failed", "empty"} => settings' = DefaultSettings
       /\ (settingsReq \in {"failed", "empty"} /\ pinReq = NULL /\ pinReq' # NULL)
            => pinReq'.settings = DefaultSettings
       /\ (settingsReq \in {"failed", "empty"} /\ PinDecision
              /\ pinReq.settings # NULL)
            => (student' # NULL
                  <=> pinReq.resp.student.status # "Suspended")
       /\ (settingsReq \in {"failed", "empty"} /\ CheckinSent)
            => student.status # "Suspended"]_vars

\* C7: settings are applied in real time: every eligibility decision at PIN
\* submission or at check-in confirmation, taken by a view whose settings
\* fetch succeeded, is the decision the settings stored on the server at
\* that moment give, also when the administrator saved new settings after
\* the view was mounted.
C7_SettingsAppliedInRealTime ==
    [][/\ (settingsReq = "resolved" /\ PinDecision /\ pinReq.settings # NULL)
            => (student' # NULL
                  <=> validateStudent(pinReq.resp.student, serverSettings,
                                      clock.now, clock.tz).valid)
       /\ (settingsReq = "resolved" /\ CheckinSent)
            => validateStudent(student, serverSettings,
                               clock.now, clock.tz).valid]_vars

-----------------------------------------------------------------------------
(* SpecHistory: StudentHistoryPanel (the drawer of the admin view) and the  *)
(* server's copy of the student's sessions                                 *)

\* the k-th session of the student: checked in at k, checked out later
HistorySession(k) == [checkin |-> k, checkout |-> k + MaxSessions]

\* the session lists the server may hold at mount: sessions 1..MaxSessions,
\* each at most once, in any order
HistoryLists ==
    {q \in SeqsUpTo({HistorySession(k) : k \in 1..MaxSessions}, MaxSessions) :
        \A i, j \in DOMAIN q : i # j => q[i] # q[j]}

StudentBody(sessions) == [_id |-> 1, sessions |-> sessions]

\* remove the element at a zero-based position
RemoveAt(seq, index) ==
    SubSeq(seq, 1, index) \o SubSeq(seq, index + 2, Len(seq))

\* the mount effect has called fetchStudent()
InitHistory ==
    /\ hStudent = NULL
    /\ hLoading = TRUE
    /\ hError = ""
    /\ hServer \in HistoryLists
    /\ hNet = {[id |-> 0, kind |-> "get", stage |-> "req"]}
    /\ hDeletes = 0
    /\ IdleEval /\ IdleAgg /\ IdleLogin /\ IdleFn /\ IdleAdmin

historyOther == <<evalVars, aggVars, loginVars, fnVars, adminVars>>

\* the Delete button of a session row: deleteSession(student.sessions.indexOf(session))
\* up to its await.  Rows are rendered once the student is loaded and no
\* error is set.  The request sends the index; the model notes beside it
\* the session of the row that was clicked.
deleteSession ==
    /\ hStudent # NULL /\ ~hLoading /\ hError = ""
    /\ hDeletes < MaxDeletes
    /\ \E sessionIndex \in 0..(Len(hStudent.sessions) - 1) :
          hNet' = hNet \cup {[id |-> hDeletes + 1, kind |-> "delete",
                               stage |-> "req", index |-> sessionIndex,
                               session |-> hStudent.sessions[sessionIndex + 1]]}
    /\ hDeletes' = hDeletes + 1
    /\ UNCHANGED <<hStudent, hLoading, hError, hServer, historyOther>>

Response(m, outcome) == [m EXCEPT !.stage = "resp"] @@ [outcome |-> outcome]

\* DELETE /users/<id>/session/<index> reaches the server; the model notes
\* in the response which session the server removed
ServerDeleteSession ==
    \E m \in hNet :
      /\ m.kind = "delete" /\ m.stage = "req"
      /\ IF m.index < Len(hServer)
         THEN /\ hServer' = RemoveAt(hServer, m.index)
              /\ hNet' = (hNet \ {m}) \cup
                            {Response(m, "ok")
                                @@ [removed |-> hServer[m.index + 1]]}
         ELSE /\ hServer' = hServer
              /\ hNet' = (hNet \ {m}) \cup {Response(m, "notOk")}
      /\ UNCHANGED <<hStudent, hLoading, hError, hDeletes, historyOther>>

\* GET /users/<id> reaches the server
ServerGet ==
    \E m \in hNet :
      /\ m.kind = "get" /\ m.stage = "req"
      /\ \/ hNet' = (hNet \ {m}) \cup
                       {Response(m, "ok") @@ [body |-> StudentBody(hServer)]}
         \/ hNet' = (hNet \ {m}) \cup {Response(m, "notOk")}
      /\ UNCHANGED <<hStudent, hLoading, hError, hServer, hDeletes,
                     historyOther>>

\* a request of the panel fails on the network: its fetch() rejects
NetworkFailure ==
    \E m \in hNet :
      /\ m.kind \in {"get", "delete"} /\ m.stage = "req"
      /\ hNet' = (hNet \ {m}) \cup {Response(m, "throw")}
      /\ UNCHANGED <<hStudent, hLoading, hError, hServer, hDeletes,
                     historyOther>>

\* mutant: the session is spliced out of the local list, nothing is refetched
deleteSessionContinue_LocalRemove ==
    \E m \in hNet :
      /\ m.kind = "delete" /\ m.stage = "resp"
      /\ CASE m.outcome = "ok" ->
                /\ hStudent' = IF hStudent = NULL THEN hStudent
                               ELSE StudentBody(RemoveAt(hStudent.sessions,
                                                         m.index))
                /\ hNet' = hNet \ {m}
                /\ UNCHANGED <<hLoading, hError>>
           [] m.outcome = "notOk" ->
                /\ hError' = "Failed to delete session"
                /\ hNet' = hNet \ {m}
                /\ UNCHANGED <<hStudent, hLoading>>
           [] m.outcome = "throw" ->
                /\ hError' = "Error connecting to server"
                /\ hNet' = hNet \ {m}
                /\ UNCHANGED <<hStudent, hLoading>>
      /\ UNCHANGED <<hServer, hDeletes, historyOther>>

\* deleteSession after its await: on response.ok fetchStudent() and
\* onRefresh() (fetchStudents of the admin view) are called, each up to its
\* own await
deleteSessionContinue ==
    \E m \in hNet :
      /\ m.kind = "delete" /\ m.stage = "resp"
      /\ CASE m.outcome = "ok" ->
                /\ hLoading' = TRUE
                /\ hNet' = (hNet \ {m}) \cup
                             {[id |-> m.id, kind |-> "get", stage |-> "req"],
                              [id |-> m.id, kind |-> "roster", stage |-> "req"]}
                /\ UNCHANGED <<hStudent, hError>>
           [] m.outcome = "notOk" ->
                /\ hError' = "Failed to delete session"
                /\ hNet' = hNet \ {m}
                /\ UNCHANGED <<hStudent, hLoading>>
           [] m.outcome = "throw" ->
                /\ hError' = "Error connecting to server"
                /\ hNet' = hNet \ {m}
                /\ UNCHANGED <<hStudent, hLoading>>
      /\ UNCHANGED <<hServer, hDeletes, historyOther>>

\* fetchStudent after its await
fetchStudentContinue ==
    \E m \in hNet :
      /\ m.kind = "get" /\ m.stage = "resp"
      /\ CASE m.outcome = "ok" ->
                /\ hStudent' = m.body
                /\ UNCHANGED hError
           [] m.outcome = "notOk" ->
                /\ hError' = "Student not found"
                /\ UNCHANGED hStudent
           [] m.outcome = "throw" ->
                /\ hError' = "Failed to fetch student data"
                /\ UNCHANGED hStudent
      /\ hLoading' = FALSE
      /\ hNet' = hNet \ {m}
      /\ UNCHANGED <<hServer, hDeletes, historyOther>>

\* fetchStudents of the admin view (onRefresh) is answered or fails, and
\* continues: it writes the roster and the error of the admin view, nothing
\* of the panel
fetchStudentsContinue ==
    \E m \in hNet :
      /\ m.kind = "roster" /\ m.stage = "req"
      /\ hNet' = hNet \ {m}
      /\ UNCHANGED <<hStudent, hLoading, hError, hServer, hDeletes,
                     historyOther>>

NextHistory ==
    \/ deleteSession
    \/ ServerDeleteSession
    \/ ServerGet
    \/ NetworkFailure
    \/ deleteSessionContinue
    \/ fetchStudentContinue
    \/ fetchStudentsContinue

SpecHistory == InitHistory /\ [][NextHistory]_vars

\* C10: after every successful session delete a refetch of the student is
\* issued, and the session list shown afterwards comes only from a server
\* response: the panel's student changes only by taking the body of a
\* GET /users/<id> response, never by removing the session locally.
C10_DeleteRefetches ==
    [][/\ \A m \in hNet :
            (m.kind = "delete" /\ m.stage = "resp" /\ m.outcome = "ok"
               /\ m \notin hNet')
            => \E g \in hNet' \ hNet : g.kind = "get" /\ g.stage = "req"
       /\ hStudent' # hStudent
            => \E g \in hNet \ hNet' :
                  /\ g.kind = "get" /\ g.stage = "resp" /\ g.outcome = "ok"
                  /\ hStudent' = g.body]_vars

\* a session was deleted and the refetch has brought the shorter list
C10_Witness ==
    /\ hDeletes = 1
    /\ hNet = {}
    /\ hError = ""
    /\ hStudent # NULL
    /\ hStudent.sessions = hServer
    /\ Len(hServer) = MaxSessions - 1

-----------------------------------------------------------------------------
(* Strings                                                                 *)

\* A JavaScript string is the sequence of its characters; "" is <<>>, and
\* an absent (null, undefined) string property is <<>> as well: the code
\* only ever tests such a property for truthiness.
LF == "<LF>"
DQ == "<DQ>"
COMMA == "<COMMA>"

\* the characters of the model, in the order of their UTF-16 code units
Alphabet ==
    <<LF, " ", DQ, COMMA, "0", "1", "2", "3", "4", "5", "6", "7", "8", "9",
      "@", "A", "J", "S", "a", "j", "o", "s">>
CharCode(c) == CHOOSE i \in DOMAIN Alphabet : Alphabet[i] = c

ToLowerChar(c) ==
    CASE c = "A" -> "a"
      [] c = "J" -> "j"
      [] c = "S" -> "s"
      [] OTHER -> c

toLowerCase(str) == [i \in DOMAIN str |-> ToLowerChar(str[i])]

\* String.prototype.includes
includes(str, term) ==
    \E i \in 0..(Len(str) - Len(term)) : SubSeq(str, i + 1, i + Len(term)) = term

IsWhiteSpace(c) == c \in {" ", LF}

\* String.prototype.trim
RECURSIVE trim(_)
trim(str) ==
    IF str = <<>> THEN <<>>
    ELSE IF IsWhiteSpace(Head(str)) THEN trim(Tail(str))
    ELSE IF IsWhiteSpace(str[Len(str)]) THEN trim(SubSeq(str, 1, Len(str) - 1))
    ELSE str

-----------------------------------------------------------------------------
(* filterStudents                                                          *)

\* the six filters of the view; "" of a date input is 0
Filters(term, status, game, registration, class, practice) ==
    [searchTerm |-> term, statusFilter |-> status, gameFilter |-> game,
     registrationDateFilter |-> registration,
     endOfClassDateFilter |-> class,
     endOfPracticeDateFilter |-> practice]

\* (student.firstName && student.firstName.toLowerCase().includes(term)) || ...
MatchesTerm(s, term) ==
    \/ (s.firstName # <<>> /\ includes(toLowerCase(s.firstName), term))
    \/ (s.lastName # <<>> /\ includes(toLowerCase(s.lastName), term))
    \/ (s.email # <<>> /\ includes(toLowerCase(s.email), term))

\* mutant: the date must be after the filter date
DateOnOrAfter_Strict(dateField, filterValue, tz) ==
    /\ dateField # 0
    /\ SetHoursZero(ParseDate(dateField), tz)
           > SetHoursZero(ParseDate(filterValue), tz)

\* if (!s.<date>) return false; ...; return <date> >= filterDate, both
\* truncated with setHours(0, 0, 0, 0)
DateOnOrAfter(dateField, filterValue, tz) ==
    /\ dateField # 0
    /\ SetHoursZero(ParseDate(dateField), tz)
           >= SetHoursZero(ParseDate(filterValue), tz)

\* filterStudents: the list handed to setFilteredStudents
filterStudents(list, f, tz) ==
    LET term == toLowerCase(f.searchTerm)
        byTerm ==
            IF trim(f.searchTerm) # <<>>
            THEN SelectSeq(list, LAMBDA s : MatchesTerm(s, term))
            ELSE list
        byStatus ==
            IF f.statusFilter # ""
            THEN SelectSeq(byTerm, LAMBDA s : s.status = f.statusFilter)
            ELSE byTerm
        byGame ==
            IF f.gameFilter # ""
            THEN SelectSeq(byStatus, LAMBDA s : f.gameFilter \in s.games)
            ELSE byStatus
        byRegistration ==
            IF f.registrationDateFilter # 0
            THEN SelectSeq(byGame, LAMBDA s :
                     DateOnOrAfter(s.registrationDate,
                                   f.registrationDateFilter, tz))
            ELSE byGame
        byClass ==
            IF f.endOfClassDateFilter # 0
            THEN SelectSeq(byRegistration, LAMBDA s :
                     DateOnOrAfter(s.endOfClassDate,
                                   f.endOfClassDateFilter, tz))
            ELSE byRegistration
        byPractice ==
            IF f.endOfPracticeDateFilter # 0
            THEN SelectSeq(byClass, LAMBDA s :
                     DateOnOrAfter(s.endOfPracticeDate,
                                   f.endOfPracticeDateFilter, tz))
            ELSE byClass
    IN byPractice

-----------------------------------------------------------------------------
(* SpecFilter: filterStudents applied to rosters, filters and time zones   *)

MaxFilterRoster == 2     \* longest roster handed to filterStudents

\* a student of the roster whom every filter value of FilterCriteria keeps
BaseStudent ==
    [firstName |-> <<"J", "a">>, lastName |-> <<"S", "o">>,
     email |-> <<"j", "@">>, status |-> "Suspended",
     games |-> {"craps", "poker"},
     registrationDate |-> 2, endOfClassDate |-> 2, endOfPracticeDate |-> 2]

\* students that differ from BaseStudent in the text fields, in status and
\* games, or in one of the three dates
FilterStudents ==
    {[BaseStudent EXCEPT !.firstName = fn, !.lastName = ln, !.email = em] :
        fn \in {<<>>, <<"J", "a">>, <<"a", " ", "J">>},
        ln \in {<<>>, <<"S", "o">>},
        em \in {<<>>, <<"j", "@">>}}
    \cup {[BaseStudent EXCEPT !.status = st, !.games = g] :
        st \in StudentStatuses, g \in {{}, {"craps"}, {"craps", "poker"}}}
    \cup {[BaseStudent EXCEPT !.registrationDate = d] : d \in DateFields}
    \cup {[BaseStudent EXCEPT !.endOfClassDate = d] : d \in DateFields}
    \cup {[BaseStudent EXCEPT !.endOfPracticeDate = d] : d \in DateFields}

\* rosters of several students are drawn from these
CoreStudents ==
    {BaseStudent,
     [BaseStudent EXCEPT !.endOfClassDate = 0],
     [BaseStudent EXCEPT !.firstName = <<>>, !.lastName = <<>>],
     [BaseStudent EXCEPT !.status = "Current Student", !.games = {}],
     [BaseStudent EXCEPT !.registrationDate = 1]}

FilterRosters ==
    SeqsUpTo(CoreStudents, MaxFilterRoster)
        \cup {<<s>> : s \in FilterStudents}

\* what the search box can hold: nothing, blanks, a term in either case, a
\* term with a blank before or after it
SearchTerms ==
    {<<>>, <<" ">>, <<"j">>, <<"J", "A">>, <<"j", "a", " ">>, <<" ", "s", "o">>}

FilterCriteria ==
    {Filters(t, st, g, r, c, p) :
        t \in SearchTerms, st \in {"", "Suspended"}, g \in {"", "poker"},
        r \in {0, 2}, c \in {0, 2}, p \in {0, 2}}

InitFilter ==
    /\ fnIn \in [fn : {"filterStudents"},
                 students : FilterRosters,
                 filters : FilterCriteria,
                 tz : TZOffsets]
    /\ fnOut = NULL
    /\ IdleEval /\ IdleAgg /\ IdleLogin /\ IdleHistory /\ IdleAdmin

CallFilterStudents ==
    /\ fnIn # NULL /\ fnIn.fn = "filterStudents"
    /\ fnOut = NULL
    /\ fnOut' = [ret |-> filterStudents(fnIn.students, fnIn.filters, fnIn.tz)]
    /\ UNCHANGED <<fnIn, evalVars, aggVars, loginVars, historyVars, adminVars>>

NextFilter == CallFilterStudents
SpecFilter == InitFilter /\ [][NextFilter]_vars

\* the text criterion is set when the search box holds more than blanks
TermSet(f) == \E i \in DOMAIN f.searchTerm : ~IsWhiteSpace(f.searchTerm[i])

\* term occurs in field when case is ignored
ContainsIgnoringCase(field, term) ==
    \E i \in 0..(Len(field) - Len(term)) :
        \A k \in 1..Len(term) :
            ToLowerChar(field[i + k]) = ToLowerChar(term[k])

\* the student date is present and its calendar day is the filter's or later
PresentOnOrAfter(dateField, filterValue) ==
    dateField # 0 /\ dateField >= filterValue

SatisfiesEveryCriterion(s, f) ==
    /\ TermSet(f) =>
          \/ ContainsIgnoringCase(s.firstName, f.searchTerm)
          \/ ContainsIgnoringCase(s.lastName, f.searchTerm)
          \/ ContainsIgnoringCase(s.email, f.searchTerm)
    /\ f.statusFilter # "" => s.status = f.statusFilter
    /\ f.gameFilter # "" => f.gameFilter \in s.games
    /\ f.registrationDateFilter # 0 =>
          PresentOnOrAfter(s.registrationDate, f.registrationDateFilter)
    /\ f.endOfClassDateFilter # 0 =>
          PresentOnOrAfter(s.endOfClassDate, f.endOfClassDateFilter)
    /\ f.endOfPracticeDateFilter # 0 =>
          PresentOnOrAfter(s.endOfPracticeDate, f.endOfPracticeDateFilter)

\* C11: filterStudents keeps, in roster order, exactly the students that
\* satisfy every criterion that is set: the search term contained in first
\* name, last name or email when case is ignored, status equal to the status
\* filter, games containing the game filter, and for each date filter the
\* student's date present and on or after the filter date.  A criterion that
\* is not set excludes nobody.
C11_FilterKeepsExactlyMatches ==
    (fnIn # NULL /\ fnIn.fn = "filterStudents" /\ fnOut # NULL) =>
        fnOut.ret = SelectSeq(fnIn.students,
                        LAMBDA s : SatisfiesEveryCriterion(s, fnIn.filters))

\* C11 happens: west of UTC, a date filter is set together with a search
\* term; of two students that both match the term, the one whose date is the
\* filter date is kept and the one without the date is dropped
C11_Witness ==
    /\ fnIn # NULL /\ fnIn.fn = "filterStudents" /\ fnOut # NULL
    /\ fnIn.tz = -1
    /\ fnIn.filters.searchTerm = <<"J", "A">>
    /\ fnIn.filters.endOfClassDateFilter = 2
    /\ Len(fnIn.students) = 2
    /\ fnIn.students[1].endOfClassDate = 0
    /\ fnIn.students[2].endOfClassDate = 2
    /\ fnOut.ret = <<fnIn.students[2]>>

\* leading and trailing white space removed, runs of white space replaced by
\* one blank
RECURSIVE CollapseSpaces(_)
CollapseSpaces(str) ==
    IF Len(str) < 2 THEN str
    ELSE IF IsWhiteSpace(str[1]) /\ IsWhiteSpace(str[2])
         THEN CollapseSpaces(<<" ">> \o Tail(Tail(str)))
         ELSE <<str[1]>> \o CollapseSpaces(Tail(str))

NormalizeSpace(str) == CollapseSpaces(trim(str))

\* C18: the text search gives the same students in the same order for a
\* query and for the same query with leading, trailing and repeated white
\* space normalized.
C18_SearchIgnoresExtraSpace ==
    (fnIn # NULL /\ fnIn.fn = "filterStudents" /\ fnOut # NULL) =>
        fnOut.ret =
            filterStudents(fnIn.students,
                [fnIn.filters EXCEPT
                    !.searchTerm = NormalizeSpace(fnIn.filters.searchTerm)],
                fnIn.tz)

-----------------------------------------------------------------------------
(* Pagination                                                              *)

ITEMS_PER_PAGE == 25
maxButtons == 5

Min(a, b) == IF a < b THEN a ELSE b
Max(a, b) == IF a > b THEN a ELSE b

\* Math.ceil(n / d) for n >= 0, d > 0
Ceil(n, d) == (n + d - 1) \div d

\* Array.prototype.slice(start, end): a negative index counts from the end,
\* both indexes are clamped to the array
slice(arr, start, end) ==
    LET from == IF start < 0 THEN Max(Len(arr) + start, 0)
                ELSE Min(start, Len(arr))
        to == IF end < 0 THEN Max(Len(arr) + end, 0) ELSE Min(end, Len(arr))
    IN SubSeq(arr, from + 1, to)

totalPagesOf(sorted) == Ceil(Len(sorted), ITEMS_PER_PAGE)

\* mutant: the page number is taken as zero-based
startIndex_ZeroBased(page) == page * ITEMS_PER_PAGE

startIndex(page) == (page - 1) * ITEMS_PER_PAGE
endIndex(page) == startIndex(page) + ITEMS_PER_PAGE

\* paginatedStudents of a render with the given sorted list and current page
paginatedStudents(sorted, page) ==
    slice(sorted, startIndex(page), endIndex(page))

\* mutant: the window is not moved back when it is cut off at the last page
getPaginationRange_NoShift(page, pages) ==
    LET start == Max(1, page - (maxButtons \div 2))
        end == Min(pages, start + maxButtons - 1)
    IN [i \in 1..(end - start + 1) |-> start + i - 1]

\* getPaginationRange of a render with the given current page and page count
getPaginationRange(page, pages) ==
    LET start0 == Max(1, page - (maxButtons \div 2))
        end == Min(pages, start0 + maxButtons - 1)
        start == IF end - start0 < maxButtons - 1
                 THEN Max(1, end - maxButtons + 1)
                 ELSE start0
    IN [i \in 1..(end - start + 1) |-> start + i - 1]

-----------------------------------------------------------------------------
(* SpecPage: the page slices of sorted lists of every length, and the      *)
(* page-number buttons for every current page and page count               *)

MaxPageRoster == 60       \* longest sorted list that is paginated
MaxPages == 8             \* largest page count handed to getPaginationRange

\* a sorted list of n students, each named by its place in the list
SortedList(n) == [i \in 1..n |-> i]

InitPage ==
    /\ fnIn \in [fn : {"paginate"},
                 sorted : {SortedList(n) : n \in 0..MaxPageRoster}]
          \cup {x \in [fn : {"getPaginationRange"},
                       currentPage : 1..MaxPages,
                       totalPages : 1..MaxPages] :
                   x.currentPage <= x.totalPages}
    /\ fnOut = NULL
    /\ IdleEval /\ IdleAgg /\ IdleLogin /\ IdleHistory /\ IdleAdmin

\* the renders of the view with currentPage = 1, 2, ..., totalPages
RenderPages ==
    /\ fnIn # NULL /\ fnIn.fn = "paginate"
    /\ fnOut = NULL
    /\ fnOut' = [pages |-> [p \in 1..totalPagesOf(fnIn.sorted) |->
                               paginatedStudents(fnIn.sorted, p)]]
    /\ UNCHANGED <<fnIn, evalVars, aggVars, loginVars, historyVars, adminVars>>

CallGetPaginationRange ==
    /\ fnIn # NULL /\ fnIn.fn = "getPaginationRange"
    /\ fnOut = NULL
    /\ fnOut' = [ret |-> getPaginationRange(fnIn.currentPage, fnIn.totalPages)]
    /\ UNCHANGED <<fnIn, evalVars, aggVars, loginVars, historyVars, adminVars>>

NextPage == RenderPages \/ CallGetPaginationRange
SpecPage == InitPage /\ [][NextPage]_vars

RECURSIVE Concat(_)
Concat(seqs) ==
    IF seqs = <<>> THEN <<>> ELSE Head(seqs) \o Concat(Tail(seqs))

\* C14: the pages 1..ceil(N/25) of a sorted list of N students hold 25
\* students each, except the last, which holds the rest; put one after the
\* other they are the sorted list, so no student is dropped or shown twice.
C14_PagesPartitionList ==
    (fnIn # NULL /\ fnIn.fn = "paginate" /\ fnOut # NULL) =>
        LET N == Len(fnIn.sorted)
            T == Len(fnOut.pages)
        IN /\ T * 25 >= N /\ (T - 1) * 25 < N
           /\ \A p \in 1..T :
                 Len(fnOut.pages[p]) = IF p < T THEN 25 ELSE N - 25 * (T - 1)
           /\ Concat(fnOut.pages) = fnIn.sorted

\* C14 happens: 60 students on pages of 25, 25 and 10
C14_Witness ==
    /\ fnIn # NULL /\ fnIn.fn = "paginate" /\ fnOut # NULL
    /\ Len(fnIn.sorted) = 60
    /\ [p \in DOMAIN fnOut.pages |-> Len(fnOut.pages[p])] = <<25, 25, 10>>

\* C15: for 1 <= c <= T the page-number buttons are consecutive page
\* numbers within 1..T, min(5, T) of them, with c among them; c is the
\* middle one unless the window starts at 1 or ends at T.
C15_PaginationRangeWindow ==
    (fnIn # NULL /\ fnIn.fn = "getPaginationRange" /\ fnOut # NULL) =>
        LET r == fnOut.ret
            c == fnIn.currentPage
            T == fnIn.totalPages
        IN /\ Len(r) = (IF T < 5 THEN T ELSE 5)
           /\ \A i \in DOMAIN r : r[i] \in 1..T
           /\ \A i \in 1..(Len(r) - 1) : r[i + 1] = r[i] + 1
           /\ \E i \in DOMAIN r : r[i] = c
           /\ \/ r[1] = 1
              \/ r[Len(r)] = T
              \/ r[3] = c

\* C15 happens: a window in the middle (3..7 around 5 of 8) is computed
C15_Witness ==
    /\ fnIn # NULL /\ fnIn.fn = "getPaginationRange" /\ fnOut # NULL
    /\ fnIn.currentPage = 5 /\ fnIn.totalPages = 8
    /\ fnOut.ret = <<3, 4, 5, 6, 7>>

-----------------------------------------------------------------------------
(* Sorting the roster                                                      *)

\* a < b for two strings: the comparison of their UTF-16 code units
RECURSIVE StrLess(_, _)
StrLess(a, b) ==
    IF b = <<>> THEN FALSE
    ELSE IF a = <<>> THEN TRUE
    ELSE IF Head(a) = Head(b) THEN StrLess(Tail(a), Tail(b))
    ELSE CharCode(Head(a)) < CharCode(Head(b))

RECURSIVE SumHours(_)
SumHours(sessions) ==
    IF sessions = <<>> THEN 0
    ELSE sessions[1].hours + SumHours(Tail(sessions))

\* calculateTotalHours: an absent session list and absent hours count as 0
calculateTotalHours(s) ==
    IF "sessions" \notin DOMAIN s \/ Len(s.sessions) = 0 THEN 0
    ELSE SumHours(s.sessions)

sessionsLength(s) == IF "sessions" \notin DOMAIN s THEN 0 ELSE Len(s.sessions)

\* the six columns with a SortHeader
SortableColumns == {"name", "pin", "email", "status", "sessions", "hours"}

\* the strings compared for a text column
TextValue(s, column) ==
    CASE column = "name" ->
             toLowerCase(s.lastName \o <<" ">> \o s.firstName)
      [] column = "pin" -> s.pin
      [] column = "email" -> toLowerCase(s.email)

\* the numbers compared for a number column
NumberValue(s, column) ==
    CASE column = "sessions" -> sessionsLength(s)
      [] column = "hours" -> calculateTotalHours(s)

\* rank of a status in the order of the lower-cased status strings:
\* "" < "current student" < "suspended"
StatusRank(status) ==
    CASE status = "" -> 0
      [] status = "Current Student" -> 1
      [] status = "Suspended" -> 2

\* aVal < bVal for the values the switch over sortColumn derives
ValueLess(a, b, column) ==
    CASE column \in {"name", "pin", "email"} ->
             StrLess(TextValue(a, column), TextValue(b, column))
      [] column = "status" -> StatusRank(a.status) < StatusRank(b.status)
      [] column \in {"sessions", "hours"} ->
             NumberValue(a, column) < NumberValue(b, column)

\* the comparator handed to sort(): negative, zero or positive
Compare(a, b, column, direction) ==
    IF column \notin SortableColumns THEN 0
    ELSE IF ValueLess(a, b, column) THEN (IF direction = "asc" THEN -1 ELSE 1)
    ELSE IF ValueLess(b, a, column) THEN (IF direction = "asc" THEN 1 ELSE -1)
    ELSE 0

\* Array.prototype.sort with a comparator is stable: list[i] comes before
\* list[j] when it compares smaller, or compares equal and stands before it
SortsBefore(list, i, j, column, direction) ==
    LET c == Compare(list[i], list[j], column, direction)
    IN c < 0 \/ (c = 0 /\ i < j)

\* getSortedStudents: a sorted copy of the list
getSortedStudents(list, column, direction) ==
    LET n == Len(list)
        place == [i \in 1..n |->
                     1 + Cardinality({j \in 1..n :
                             SortsBefore(list, j, i, column, direction)})]
    IN [k \in 1..n |-> list[CHOOSE i \in 1..n : place[i] = k]]

-----------------------------------------------------------------------------
(* SpecAdmin: the AdminPanel view                                          *)

MaxAdminRoster == 51     \* students of the roster on the server

Digit(n) == Alphabet[CharCode("0") + n]

\* the i-th student of the roster: names, PIN, status, games, dates and
\* sessions vary with i, and the roster is in no column's order
AdminStudent(i) ==
    [firstName |-> IF i % 2 = 1 THEN <<"J", "a">> ELSE <<"S", "o">>,
     lastName |-> CASE i % 3 = 0 -> <<"a">>
                    [] i % 3 = 1 -> <<"S", "o">>
                    [] OTHER -> <<"J">>,
     email |-> IF i % 4 = 0 THEN <<>> ELSE <<"s", Digit(i % 10), "@">>,
     pin |-> <<Digit((99 - i) \div 10), Digit((99 - i) % 10)>>,
     status |-> CASE i % 3 = 0 -> "Suspended"
                  [] i % 3 = 1 -> "Current Student"
                  [] OTHER -> "",
     games |-> IF i % 2 = 0 THEN {"craps", "poker"} ELSE {"craps"},
     registrationDate |-> i % (MaxDay + 1),
     endOfClassDate |-> 2,
     endOfPracticeDate |-> IF i % 5 = 0 THEN 0 ELSE MaxDay,
     sessions |-> [k \in 1..(i % 3) |->
                      [checkin |-> k, checkout |-> k, hours |-> (i % 2) + k]]]

AdminRoster(n) == [i \in 1..n |-> AdminStudent(i)]

\* what the filter controls are set to in this specification
AdminSearchTerms == {<<>>, <<"j">>}
AdminStatusFilters == {"", "Suspended"}
AdminGameFilters == {"", "poker"}
AdminDateFilters == {0, 2}

\* the administrator's browser is west of UTC
AdminTZOffsets == {-1}

\* the page numbers handed to goToPage: those of the buttons, and numbers no
\* button sends
PageRequests == -1..(Ceil(MaxAdminRoster, ITEMS_PER_PAGE) + 1)

\* aEvent: the handler that ran last and its argument; for a change of the
\* filters the argument is currentPage at the time of the change
Event(op, arg) == [op |-> op, arg |-> arg]

\* the mount effect has called fetchStudents()
InitAdmin ==
    /\ students = <<>> /\ filteredStudents = <<>>
    /\ aLoading = TRUE /\ aError = ""
    /\ searchTerm = <<>> /\ statusFilter = "" /\ gameFilter = ""
    /\ registrationDateFilter = 0 /\ endOfClassDateFilter = 0
    /\ endOfPracticeDateFilter = 0
    /\ currentPage = 1 /\ sortColumn = "lastName" /\ sortDirection = "asc"
    /\ srvStudents \in {AdminRoster(0), AdminRoster(MaxAdminRoster)}
    /\ rosterReq = "pending"
    /\ aTz \in AdminTZOffsets
    /\ aEvent = Event("mount", 0)
    /\ IdleEval /\ IdleAgg /\ IdleLogin /\ IdleHistory /\ IdleFn /\ IdleOffice

adminOther == <<evalVars, aggVars, loginVars, historyVars, fnVars, officeVars>>

CurrentFilters ==
    Filters(searchTerm, statusFilter, gameFilter, registrationDateFilter,
            endOfClassDateFilter, endOfPracticeDateFilter)

\* values of the render
sortedStudents == getSortedStudents(filteredStudents, sortColumn, sortDirection)
hasActiveFilters == CurrentFilters # Filters(<<>>, "", "", 0, 0, 0)

\* Math.ceil(sortedStudents.length / ITEMS_PER_PAGE): sortedStudents is a
\* copy of filteredStudents put in order, so the two have the same length
totalPages == totalPagesOf(filteredStudents)
\* the view shows "Loading..." instead of the panel
LoadingScreen == aLoading /\ Len(students) = 0

\* mutant: filterStudents leaves the current page alone
filterStudentsEffect_KeepPage(list, f) ==
    /\ filteredStudents' = filterStudents(list, f, aTz)
    /\ UNCHANGED currentPage

\* useEffect(() => filterStudents(), [the six filters, students]): runs
\* with the roster and the filters of the render that follows the change
filterStudentsEffect(list, f) ==
    /\ filteredStudents' = filterStudents(list, f, aTz)
    /\ currentPage' = 1

\* fetchStudents: the response arrives and parses
fetchStudentsResolve ==
    /\ rosterReq = "pending"
    /\ rosterReq' = "resolved"
    /\ students' = srvStudents
    /\ aLoading' = FALSE
    /\ filterStudentsEffect(srvStudents, CurrentFilters)
    /\ aEvent' = Event("fetchStudents", 0)
    /\ UNCHANGED <<aError, filterVars, sortColumn, sortDirection, srvStudents,
                   aTz, adminOther>>

\* fetchStudents: fetch or json() throws
fetchStudentsFail ==
    /\ rosterReq = "pending"
    /\ rosterReq' = "failed"
    /\ aError' = "Failed to fetch students"
    /\ aLoading' = FALSE
    /\ aEvent' = Event("fetchStudents", 1)
    /\ UNCHANGED <<students, filteredStudents, filterVars, currentPage,
                   sortColumn, sortDirection, srvStudents, aTz, adminOther>>

\* a filter control is set to a value it does not hold already; f holds the
\* six filters after the change
ChangeFilters(op, f) ==
    /\ ~LoadingScreen
    /\ f # CurrentFilters
    /\ searchTerm' = f.searchTerm
    /\ statusFilter' = f.statusFilter
    /\ gameFilter' = f.gameFilter
    /\ registrationDateFilter' = f.registrationDateFilter
    /\ endOfClassDateFilter' = f.endOfClassDateFilter
    /\ endOfPracticeDateFilter' = f.endOfPracticeDateFilter
    /\ filterStudentsEffect(students, f)
    /\ aEvent' = Event(op, currentPage)
    /\ UNCHANGED <<students, aLoading, aError, sortColumn, sortDirection,
                   srvStudents, rosterReq, aTz, adminOther>>

setSearchTerm ==
    \E t \in AdminSearchTerms :
        ChangeFilters("setSearchTerm", [CurrentFilters EXCEPT !.searchTerm = t])

setStatusFilter ==
    \E v \in AdminStatusFilters :
        ChangeFilters("setStatusFilter",
                      [CurrentFilters EXCEPT !.statusFilter = v])

setGameFilter ==
    \E v \in AdminGameFilters :
        ChangeFilters("setGameFilter", [CurrentFilters EXCEPT !.gameFilter = v])

setRegistrationDateFilter ==
    \E d \in AdminDateFilters :
        ChangeFilters("setRegistrationDateFilter",
                      [CurrentFilters EXCEPT !.registrationDateFilter = d])

setEndOfClassDateFilter ==
    \E d \in AdminDateFilters :
        ChangeFilters("setEndOfClassDateFilter",
                      [CurrentFilters EXCEPT !.endOfClassDateFilter = d])

setEndOfPracticeDateFilter ==
    \E d \in AdminDateFilters :
        ChangeFilters("setEndOfPracticeDateFilter",
                      [CurrentFilters EXCEPT !.endOfPracticeDateFilter = d])

\* the Clear All button, rendered while a filter is set
clearAllFilters ==
    /\ hasActiveFilters
    /\ ChangeFilters("clearAllFilters", Filters(<<>>, "", "", 0, 0, 0))

Flip(direction) == IF direction = "asc" THEN "desc" ELSE "asc"

\* mutant: a click on another column keeps the direction
handleSort_KeepDirection(column) ==
    /\ ~LoadingScreen
    /\ IF sortColumn = column
       THEN sortDirection' = Flip(sortDirection) /\ UNCHANGED sortColumn
       ELSE sortColumn' = column /\ UNCHANGED sortDirection
    /\ aEvent' = Event("handleSort", column)
    /\ UNCHANGED <<students, filteredStudents, aLoading, aError, filterVars,
                   currentPage, srvStudents, rosterReq, aTz, adminOther>>

\* a click on the header of a column
handleSort(column) ==
    /\ ~LoadingScreen
    /\ IF sortColumn = column
       THEN sortDirection' = Flip(sortDirection) /\ UNCHANGED sortColumn
       ELSE sortColumn' = column /\ sortDirection' = "asc"
    /\ aEvent' = Event("handleSort", column)
    /\ UNCHANGED <<students, filteredStudents, aLoading, aError, filterVars,
                   currentPage, srvStudents, rosterReq, aTz, adminOther>>

\* mutant: the page is only kept from falling below 1
clampPage_NoUpperBound(page, pages) == Max(1, page)

\* Math.max(1, Math.min(page, totalPages))
clampPage(page, pages) == Max(1, Min(page, pages))

\* goToPage(page); the pagination controls are rendered while there is more
\* than one page
goToPage(page) ==
    /\ ~LoadingScreen
    /\ totalPages > 1
    /\ currentPage' = clampPage(page, totalPages)
    /\ aEvent' = Event("goToPage", page)
    /\ UNCHANGED <<students, filteredStudents, aLoading, aError, filterVars,
                   sortColumn, sortDirection, srvStudents, rosterReq, aTz,
                   adminOther>>

NextAdmin ==
    \/ fetchStudentsResolve
    \/ fetchStudentsFail
    \/ setSearchTerm
    \/ setStatusFilter
    \/ setGameFilter
    \/ setRegistrationDateFilter
    \/ setEndOfClassDateFilter
    \/ setEndOfPracticeDateFilter
    \/ clearAllFilters
    \/ \E column \in SortableColumns : handleSort(column)
    \/ \E page \in PageRequests : goToPage(page)

SpecAdmin == InitAdmin /\ [][NextAdmin]_vars

\* C12: a step that changes any of the six filters, the step of Clear All
\* included, ends with the current page 1.
C12_FilterChangeResetsPage ==
    [][filterVars' # filterVars => currentPage' = 1]_vars

\* C12 happens: a filter was changed while page 2 or a later page was shown,
\* and now, with a filter set, page 1 is shown
C12_Witness ==
    /\ aEvent.op \in {"setSearchTerm", "setStatusFilter", "setGameFilter",
                      "setRegistrationDateFilter", "setEndOfClassDateFilter",
                      "setEndOfPracticeDateFilter"}
    /\ aEvent.arg > 1
    /\ hasActiveFilters
    /\ currentPage = 1

\* C13: after goToPage(p), for every integer p, the current page is in
\* 1..ceil(total/25), total being the number of filtered students.
C13_GoToPageClamps ==
    aEvent.op = "goToPage" =>
        /\ currentPage >= 1
        /\ currentPage * 25 < Len(filteredStudents) + 25

\* C13 happens: a page beyond the last one was asked for, and the last page
\* is shown
C13_Witness ==
    /\ aEvent.op = "goToPage"
    /\ aEvent.arg * 25 >= Len(filteredStudents) + 25
    /\ currentPage > 1

\* C16: handleSort on the active column flips the direction and keeps the
\* column; handleSort on another column makes it the active column,
\* ascending, whatever the direction was.
C16_HandleSort ==
    [][aEvent'.op = "handleSort" =>
          IF sortColumn = aEvent'.arg
          THEN /\ sortColumn' = sortColumn
               /\ sortDirection' # sortDirection
               /\ sortDirection' \in {"asc", "desc"}
          ELSE /\ sortColumn' = aEvent'.arg
               /\ sortDirection' = "asc"]_vars

\* C16 happens: a column is active and descending (it was clicked when
\* active), and the last click was on it while another column was active
\* descending or it is now descending after a flip
C16_Witness ==
    /\ aEvent.op = "handleSort"
    /\ sortColumn = "pin" /\ aEvent.arg = "pin"
    /\ sortDirection = "desc"

\* the students shown: the current page of the sorted list
displayedStudents == paginatedStudents(sortedStudents, currentPage)

\* the list is in the order of the column: no student precedes one with a
\* smaller value (ascending) or a larger value (descending)
OrderedBy(list, column, direction) ==
    \A i, j \in DOMAIN list :
        i < j => IF direction = "asc"
                 THEN ~ValueLess(list[j], list[i], column)
                 ELSE ~ValueLess(list[i], list[j], column)

\* C17: in every reachable state of the admin view, the initial one
\* included, the active sort column is one of the six sortable columns and
\* the displayed roster is ordered by it.
C17_SortColumnIsSortable ==
    /\ sortColumn \in SortableColumns
    /\ OrderedBy(displayedStudents, sortColumn, sortDirection)

-----------------------------------------------------------------------------
(* CSV export                                                              *)

\* A literal of the source that no operation takes apart (a column title,
\* "Never", "In Progress", a status) is kept as one element of the text.
Literal(word) == IF word = "" THEN <<>> ELSE <<word>>

\* new Date(d).toLocaleDateString(): the local calendar day of the instant
toLocaleDateString(t, tz) == <<Digit(LocalDay(t, tz))>>

\* new Date(t).toLocaleString(): local day, a comma, local time of day
toLocaleString(t, tz) ==
    <<Digit(LocalDay(t, tz)), COMMA, " ", Digit((t + tz) % DayLen)>>

\* n.toFixed(2) for a whole number of hours
toFixed2(n) == <<Digit(n), ".", "0", "0">>

\* getFullName
getFullName(s) == trim(s.firstName \o <<" ">> \o s.lastName)

\* Array.prototype.join
RECURSIVE join(_, _)
join(parts, separator) ==
    IF parts = <<>> THEN <<>>
    ELSE IF Len(parts) = 1 THEN parts[1]
    ELSE parts[1] \o separator \o join(Tail(parts), separator)

\* `"${cell}"`
quoteCell(cell) == <<DQ>> \o cell \o <<DQ>>

\* rows.map((row) => row.map((cell) => `"${cell}"`).join(",")).join("\n")
rowsToText(rows) ==
    join([r \in DOMAIN rows |->
             join([c \in DOMAIN rows[r] |-> quoteCell(rows[r][c])], <<COMMA>>)],
         <<LF>>)

RosterHeaders ==
    <<"First Name", "Last Name", "PIN", "ID Number", "Email", "Phone",
      "Street", "City", "State", "Zip Code", "Foreign Address", "Status",
      "Source", "Registration Date", "End of Class Date",
      "End of Practice Date", "Last Checkout Date">>

DateCell(dateField, tz) ==
    IF dateField # 0 THEN toLocaleDateString(ParseDate(dateField), tz) ELSE <<>>

\* the array pushed for one student by generateRosterCSV
RosterRow(s, tz) ==
    LET lastCheckout == getLastCheckoutDate(s).ret
    IN <<s.firstName, s.lastName, s.pin, s.idNumber, s.email, s.phone,
         s.street, s.city, s.state, s.zipCode, s.foreignAddress,
         Literal(s.status), s.source,
         DateCell(s.registrationDate, tz),
         DateCell(s.endOfClassDate, tz),
         DateCell(s.endOfPracticeDate, tz),
         IF lastCheckout # 0 THEN toLocaleString(lastCheckout, tz)
         ELSE Literal("Never")>>

\* generateRosterCSV of AdminPanel
generateRosterCSV(list, tz) ==
    rowsToText(<<[c \in DOMAIN RosterHeaders |-> Literal(RosterHeaders[c])]>>
               \o [i \in DOMAIN list |-> RosterRow(list[i], tz)])

\* RosterExportModal of the older admin page: no registration date column
ModalRosterHeaders ==
    SelectSeq(RosterHeaders, LAMBDA h : h # "Registration Date")

ModalRosterRow(s, tz) ==
    LET row == RosterRow(s, tz)
    IN SubSeq(row, 1, 13) \o SubSeq(row, 15, 17)

\* generateRosterCSV of RosterExportModal
RosterExportModal_generateRosterCSV(list, tz) ==
    rowsToText(<<[c \in DOMAIN ModalRosterHeaders |->
                     Literal(ModalRosterHeaders[c])]>>
               \o [i \in DOMAIN list |-> ModalRosterRow(list[i], tz)])

SessionsHeaders ==
    <<"Student Name", "PIN", "Email", "Check-in Date/Time",
      "Check-out Date/Time", "Hours">>

\* the array pushed for one session by generateSessionsCSV
SessionRow(s, session, tz) ==
    <<getFullName(s), s.pin, s.email,
      IF session.checkin # 0 THEN toLocaleString(session.checkin, tz) ELSE <<>>,
      IF session.checkout # 0 THEN toLocaleString(session.checkout, tz)
      ELSE Literal("In Progress"),
      IF session.hours # 0 THEN toFixed2(session.hours) ELSE <<>>>>

\* the rows pushed by students.forEach(... student.sessions.forEach(...))
RECURSIVE SessionRows(_, _)
SessionRows(list, tz) ==
    IF list = <<>> THEN <<>>
    ELSE LET s == Head(list)
         IN (IF "sessions" \in DOMAIN s /\ Len(s.sessions) > 0
             THEN [k \in DOMAIN s.sessions |-> SessionRow(s, s.sessions[k], tz)]
             ELSE <<>>)
            \o SessionRows(Tail(list), tz)

\* generateSessionsCSV of AdminPanel, generateCSV of the student page
generateSessionsCSV(list, tz) ==
    rowsToText(<<[c \in DOMAIN SessionsHeaders |->
                     Literal(SessionsHeaders[c])]>>
               \o SessionRows(list, tz))

-----------------------------------------------------------------------------
(* SpecCSV: the two exports applied to rosters in two time zones           *)

MaxCSVRoster == 2        \* longest roster that is exported

ClosedWithHours == [checkin |-> 1, checkout |-> 2, hours |-> 1]
OpenNoHours == [checkin |-> 3, checkout |-> 0, hours |-> 0]

BaseCSVStudent ==
    [firstName |-> <<"J", "a">>, lastName |-> <<"S", "o">>, pin |-> <<"1">>,
     idNumber |-> <<>>, email |-> <<"j", "@">>, phone |-> <<>>,
     street |-> <<>>, city |-> <<>>, state |-> <<>>, zipCode |-> <<>>,
     foreignAddress |-> <<>>, status |-> "Suspended",
     source |-> Literal("Regular"),
     registrationDate |-> 1, endOfClassDate |-> 2, endOfPracticeDate |-> 0,
     sessions |-> <<>>]

\* the base student without the sessions property
WithoutSessions ==
    [k \in DOMAIN BaseCSVStudent \ {"sessions"} |-> BaseCSVStudent[k]]

\* rosters of several students are drawn from these
CoreCSVStudents ==
    {BaseCSVStudent,
     [BaseCSVStudent EXCEPT !.pin = <<"2">>,
                            !.sessions = <<ClosedWithHours, OpenNoHours>>],
     [BaseCSVStudent EXCEPT !.pin = <<"3">>, !.sessions = <<OpenNoHours>>,
                            !.firstName = <<"S", COMMA, "o">>]}

\* students alone on a roster: a name with a double quote, an address of
\* two lines, the session lists
SingleCSVStudents ==
    {WithoutSessions,
     [BaseCSVStudent EXCEPT !.firstName = <<"a", DQ>>,
                            !.sessions = <<ClosedWithHours, OpenNoHours>>],
     [BaseCSVStudent EXCEPT !.foreignAddress = <<"a", LF, "o">>],
     [BaseCSVStudent EXCEPT !.firstName = <<>>,
                            !.sessions = <<OpenNoHours, ClosedWithHours>>]}

\* the exports are made of a roster that is not empty
CSVRosters ==
    (SeqsUpTo(CoreCSVStudents, MaxCSVRoster)
        \cup {<<s>> : s \in SingleCSVStudents}) \ {<<>>}

CSVFunctions ==
    {"generateRosterCSV", "RosterExportModal", "generateSessionsCSV"}

InitCSV ==
    /\ fnIn \in [fn : CSVFunctions, students : CSVRosters, tz : TZOffsets]
    /\ fnOut = NULL
    /\ IdleEval /\ IdleAgg /\ IdleLogin /\ IdleHistory /\ IdleAdmin

CallGenerateRosterCSV ==
    /\ fnIn # NULL /\ fnIn.fn = "generateRosterCSV"
    /\ fnOut = NULL
    /\ fnOut' = [text |-> generateRosterCSV(fnIn.students, fnIn.tz)]
    /\ UNCHANGED <<fnIn, evalVars, aggVars, loginVars, historyVars, adminVars>>

CallModalGenerateRosterCSV ==
    /\ fnIn # NULL /\ fnIn.fn = "RosterExportModal"
    /\ fnOut = NULL
    /\ fnOut' = [text |-> RosterExportModal_generateRosterCSV(fnIn.students,
                                                              fnIn.tz)]
    /\ UNCHANGED <<fnIn, evalVars, aggVars, loginVars, historyVars, adminVars>>

CallGenerateSessionsCSV ==
    /\ fnIn # NULL /\ fnIn.fn = "generateSessionsCSV"
    /\ fnOut = NULL
    /\ fnOut' = [text |-> generateSessionsCSV(fnIn.students, fnIn.tz)]
    /\ UNCHANGED <<fnIn, evalVars, aggVars, loginVars, historyVars, adminVars>>

NextCSV ==
    \/ CallGenerateRosterCSV
    \/ CallModalGenerateRosterCSV
    \/ CallGenerateSessionsCSV

SpecCSV == InitCSV /\ [][NextCSV]_vars

\* Reading CSV text: a character is outside quotes when an even number of
\* double quotes precede it; a line feed outside quotes ends a line, a comma
\* outside quotes ends a field.
OutsideQuotes(text, i) ==
    Cardinality({k \in 1..(i - 1) : text[k] = DQ}) % 2 = 0

Separators(text, ch) ==
    {i \in DOMAIN text : text[i] = ch /\ OutsideQuotes(text, i)}

\* the pieces of the text between the positions of P, in order
SplitAt(text, P) ==
    LET cut == [k \in 0..(Cardinality(P) + 1) |->
                   IF k = 0 THEN 0
                   ELSE IF k = Cardinality(P) + 1 THEN Len(text) + 1
                   ELSE CHOOSE p \in P : Cardinality({q \in P : q < p}) = k - 1]
    IN [k \in 1..(Cardinality(P) + 1) |->
           SubSeq(text, cut[k - 1] + 1, cut[k] - 1)]

CSVLines(text) == SplitAt(text, Separators(text, LF))
CSVFields(line) == SplitAt(line, Separators(line, COMMA))

InQuotes(cell) == <<DQ>> \o cell \o <<DQ>>
Wrapped(field) ==
    Len(field) >= 2 /\ field[1] = DQ /\ field[Len(field)] = DQ

NoCheckout(s) ==
    "sessions" \notin DOMAIN s
        \/ \A k \in DOMAIN s.sessions : s.sessions[k].checkout = 0

RosterCSVAsClaimed(list, text) ==
    LET lines == CSVLines(text)
    IN /\ Len(lines) = Len(list) + 1
       /\ \A r \in DOMAIN lines :
             /\ Len(CSVFields(lines[r])) = 17
             /\ \A c \in 1..17 : Wrapped(CSVFields(lines[r])[c])
       /\ CSVFields(lines[1]) =
             [c \in 1..17 |-> InQuotes(<<RosterHeaders[c]>>)]
       /\ \A i \in DOMAIN list :
             /\ CSVFields(lines[i + 1])[3] = InQuotes(list[i].pin)
             /\ CSVFields(lines[i + 1])[17] = InQuotes(<<"Never">>)
                   <=> NoCheckout(list[i])

\* C19: for a roster of N students generateRosterCSV gives N+1 lines, the
\* header and one line per student in roster order; every line has the 17
\* columns of the header in the fixed order, every field is wrapped in
\* double quotes, and Last Checkout Date is "Never" exactly when no session
\* of the student has a checkout.
C19_RosterCSV ==
    (fnIn # NULL /\ fnIn.fn \in {"generateRosterCSV", "RosterExportModal"}
         /\ fnOut # NULL) =>
        RosterCSVAsClaimed(fnIn.students, fnOut.text)

\* a double quote in one of the student's text fields
HasQuote(s) ==
    \E f \in {"firstName", "lastName", "pin", "email", "foreignAddress"} :
        \E i \in DOMAIN s[f] : s[f][i] = DQ

\* the roster export of AdminPanel is as claimed when no field holds a
\* double quote
RosterCSVWithoutQuotes ==
    (fnIn # NULL /\ fnIn.fn = "generateRosterCSV" /\ fnOut # NULL
         /\ \A i \in DOMAIN fnIn.students : ~HasQuote(fnIn.students[i])) =>
        RosterCSVAsClaimed(fnIn.students, fnOut.text)

\* the sessions of the roster, student by student, each with its student
RECURSIVE SessionsInOrder(_)
SessionsInOrder(list) ==
    IF list = <<>> THEN <<>>
    ELSE (IF "sessions" \in DOMAIN Head(list)
          THEN [k \in DOMAIN Head(list).sessions |->
                   [student |-> Head(list), session |-> Head(list).sessions[k]]]
          ELSE <<>>)
         \o SessionsInOrder(Tail(list))

SessionsCSVAsClaimed(list, text) ==
    LET lines == CSVLines(text)
        expected == SessionsInOrder(list)
    IN /\ Len(lines) = Len(expected) + 1
       /\ \A r \in DOMAIN lines : Len(CSVFields(lines[r])) = 6
       /\ CSVFields(lines[1]) =
             [c \in 1..6 |-> InQuotes(<<SessionsHeaders[c]>>)]
       /\ \A k \in DOMAIN expected :
             /\ CSVFields(lines[k + 1])[2] = InQuotes(expected[k].student.pin)
             /\ CSVFields(lines[k + 1])[5] = InQuotes(<<"In Progress">>)
                   <=> expected[k].session.checkout = 0

\* C20: after the header generateSessionsCSV emits one row per session of
\* each student, in student order and then session order; a student without
\* sessions contributes no row; the Check-out field is "In Progress" exactly
\* for the sessions without a checkout.
C20_SessionsCSV ==
    (fnIn # NULL /\ fnIn.fn = "generateSessionsCSV" /\ fnOut # NULL) =>
        SessionsCSVAsClaimed(fnIn.students, fnOut.text)

\* the sessions export is as claimed when no field holds a double quote
SessionsCSVWithoutQuotes ==
    (fnIn # NULL /\ fnIn.fn = "generateSessionsCSV" /\ fnOut # NULL
         /\ \A i \in DOMAIN fnIn.students : ~HasQuote(fnIn.students[i])) =>
        SessionsCSVAsClaimed(fnIn.students, fnOut.text)

-----------------------------------------------------------------------------
(* The requests of the login view                                          *)

\* a step that sends the check-out request
CheckoutSent ==
    actReq = NULL /\ actReq' # NULL /\ actReq'.kind = "checkout"

\* C28: a check-in request is sent only for a looked-up student whose
\* fetched record has no active session and who passes validateStudent when
\* the button is clicked; a check-out request is sent only for a looked-up
\* student whose record has an active session; while no student is looked
\* up the active-session flag is false.
C28_RequestsOnlyForLookedUpStudent ==
    /\ [](student = NULL => hasActiveSession = "false")
    /\ [][/\ CheckinSent =>
               /\ student # NULL
               /\ actReq'.id = student._id
               /\ ActiveSessionFlag(student) # "true"
               /\ validateStudent(student, settings, clock.now, clock.tz).valid
          /\ CheckoutSent =>
               /\ student # NULL
               /\ actReq'.id = student._id
               /\ ActiveSessionFlag(student) = "true"]_vars

\* C28 happens: the check-out request of a student with a closed and an open
\* session is in flight
C28_Witness ==
    /\ actReq # NULL /\ actReq.kind = "checkout"
    /\ student # NULL
    /\ "sessions" \in DOMAIN student
    /\ student.sessions = <<ClosedSession, OpenSession>>
    /\ loading

-----------------------------------------------------------------------------
(* SpecLoginFair: the login view when every request is answered or fails,  *)
(* and the handler that awaits it runs on                                  *)

\* the settings on the server: none, or every rule switched on
FairServerSettings ==
    {NULL, [blockedStatuses |-> BlockableStatuses,
            enforceClassEndDate |-> TRUE, enforcePracticeEndDate |-> TRUE]}

InitLoginFair ==
    /\ InitLogin
    /\ serverSettings \in FairServerSettings

\* the view alone: the settings on the server stay as they are
NextLoginFair ==
    \/ FetchSettingsResolve
    \/ FetchSettingsFail
    \/ PinChange
    \/ PinSubmit
    \/ PinResponseArrives
    \/ PinSubmitContinue
    \/ handleCheckin
    \/ handleCheckinContinue
    \/ handleCheckout
    \/ handleCheckoutContinue
    \/ Cancel
    \/ SuccessTimeout

SpecLoginFair ==
    /\ InitLoginFair
    /\ [][NextLoginFair]_vars
    /\ WF_vars(PinResponseArrives)
    /\ WF_vars(PinSubmitContinue)
    /\ WF_vars(handleCheckinContinue)
    /\ WF_vars(handleCheckoutContinue)

\* C30: every PIN lookup, check-in and check-out that sets loading to true
\* sets it back to false once its request has completed, whatever the
\* outcome.
C30_LoadingEnds == loading ~> ~loading

\* C30 happens: the body of a failed check-in could not be parsed, and the
\* view is not loading
C30_Witness ==
    /\ ~loading
    /\ student # NULL
    /\ error = "Error connecting to server."
    /\ actReq = NULL

-----------------------------------------------------------------------------
(* The session a delete removes                                            *)

\* C26: every session delete the server applies removes exactly the session
\* whose row was clicked: the index sent denotes that session in the
\* server's list when the request is applied, also when a second delete is
\* clicked before the first has been answered and refetched.
C26_DeleteRemovesClickedSession ==
    \A m \in hNet :
        (m.kind = "delete" /\ m.stage = "resp" /\ m.outcome = "ok")
            => m.removed = m.session

\* one delete at a time removes the session that was clicked: a delete that
\* is applied while no other delete of the panel is unanswered or unhandled
SingleDeleteRemovesClickedSession ==
    \A m \in hNet :
        (/\ m.kind = "delete" /\ m.stage = "resp" /\ m.outcome = "ok"
         /\ hDeletes = 1)
            => m.removed = m.session

-----------------------------------------------------------------------------
(* SpecDrawer: the slide-out drawer of AdminPanel                          *)

MaxDrawerTimers == 3     \* pending delayed resets

\* the students of the rows whose Edit and History buttons are clicked
DrawerStudents == {[_id |-> 1], [_id |-> 2]}

InitDrawer ==
    /\ IdleDrawer
    /\ IdleEval /\ IdleAgg /\ IdleLogin /\ IdleHistory /\ IdleFn
    /\ IdlePanel /\ IdleSettings /\ IdleRoster

drawerOther ==
    <<evalVars, aggVars, loginVars, historyVars, fnVars,
      students, filteredStudents, aLoading, aError, filterVars, currentPage,
      sortColumn, sortDirection, srvStudents, rosterReq, aTz, aEvent,
      settingsPageVars, rosterNetVars, formVars>>

\* the resets a timer performs
ResetAll == "editing, add form, history"
ResetForm == "editing, add form"

\* The buttons of the page lie under the drawer's layer, which takes the
\* pointer while drawerOpen (index.js:646-650): they are clicked while the
\* drawer is closed.

\* the Add New Student button
openAdd ==
    /\ ~drawerOpen
    /\ editingStudent' = NULL
    /\ historyStudent' = NULL
    /\ showAddForm' = TRUE
    /\ drawerOpen' = TRUE
    /\ UNCHANGED <<drawerTimers, drawerOther>>

\* the History button of a row
openHistory ==
    /\ ~drawerOpen
    /\ \E s \in DrawerStudents :
          /\ editingStudent' = NULL
          /\ showAddForm' = FALSE
          /\ historyStudent' = s
          /\ drawerOpen' = TRUE
    /\ UNCHANGED <<drawerTimers, drawerOther>>

\* the Edit button of a row
openEdit ==
    /\ ~drawerOpen
    /\ \E s \in DrawerStudents :
          /\ showAddForm' = FALSE
          /\ historyStudent' = NULL
          /\ editingStudent' = s
          /\ drawerOpen' = TRUE
    /\ UNCHANGED <<drawerTimers, drawerOther>>

\* the backdrop and the X of the drawer header
closeDrawer ==
    /\ drawerOpen
    /\ Len(drawerTimers) < MaxDrawerTimers
    /\ drawerOpen' = FALSE
    /\ drawerTimers' = Append(drawerTimers, ResetAll)
    /\ UNCHANGED <<editingStudent, showAddForm, historyStudent, drawerOther>>

\* the student form is rendered in the drawer
FormShown == (showAddForm \/ editingStudent # NULL) /\ historyStudent = NULL

\* onSave and onCancel of the student form (fetchStudents of onSave is part
\* of the roster, not of the drawer)
onSaveOrCancel ==
    /\ drawerOpen /\ FormShown
    /\ Len(drawerTimers) < MaxDrawerTimers
    /\ drawerOpen' = FALSE
    /\ drawerTimers' = Append(drawerTimers, ResetForm)
    /\ UNCHANGED <<editingStudent, showAddForm, historyStudent, drawerOther>>

\* the oldest pending timer fires, 300 ms after it was set
drawerTimeout ==
    /\ drawerTimers # <<>>
    /\ editingStudent' = NULL
    /\ showAddForm' = FALSE
    /\ historyStudent' = IF Head(drawerTimers) = ResetAll THEN NULL
                         ELSE historyStudent
    /\ drawerTimers' = Tail(drawerTimers)
    /\ UNCHANGED <<drawerOpen, drawerOther>>

NextDrawer ==
    \/ openAdd
    \/ openHistory
    \/ openEdit
    \/ closeDrawer
    \/ onSaveOrCancel
    \/ drawerTimeout

SpecDrawer == InitDrawer /\ [][NextDrawer]_vars

\* the modes of the drawer that are active
ActiveModes ==
    {m \in {"history", "edit", "add"} :
        \/ m = "history" /\ historyStudent # NULL
        \/ m = "edit" /\ editingStudent # NULL
        \/ m = "add" /\ showAddForm}

\* C27: whenever the drawer is open exactly one of its three modes is
\* active, for every interleaving of Add, Edit and History with the delayed
\* resets scheduled by closing, saving or cancelling.
C27_DrawerHasOneMode ==
    drawerOpen => Cardinality(ActiveModes) = 1

\* never more than one mode is active
DrawerAtMostOneMode == Cardinality(ActiveModes) <= 1

-----------------------------------------------------------------------------
(* SpecSettings: the AdminSettings page and the server's settings records  *)

MaxSettingsRecords == 2  \* settings records the server stores at most

\* a settings record; the page's state before a record is known has _id
\* null, here 0
SettingsRecord(id, blocked) == [_id |-> id, blockedStatuses |-> blocked]

\* useState({_id: null, blockedStatuses: [], ...})
InitialPageSettings == SettingsRecord(0, {})

\* the else branch of fetchSettings: no settings exist yet
NoSettingsYet == SettingsRecord(0, {"Suspended"})

SettingsRequest(kind, method, id, body) ==
    [kind |-> kind, method |-> method, id |-> id, body |-> body,
     stage |-> "req", outcome |-> ""]

\* the page is loaded: useState and the mount effect, fetchSettings up to
\* its await
MountSettings ==
    /\ sSettings' = InitialPageSettings
    /\ sLoading' = TRUE
    /\ sSaving' = FALSE
    /\ sError' = ""
    /\ sSuccess' = ""
    /\ sReq' = SettingsRequest("fetch", "GET", 0, {})

\* the page has been loaded once; the server holds no record or one
InitSettings ==
    /\ sSettings = InitialPageSettings
    /\ sLoading = TRUE /\ sSaving = FALSE /\ sError = "" /\ sSuccess = ""
    /\ sReq = SettingsRequest("fetch", "GET", 0, {})
    /\ sServer \in {<<>>, <<SettingsRecord(1, {"Suspended"})>>}
    /\ IdleEval /\ IdleAgg /\ IdleLogin /\ IdleHistory /\ IdleFn
    /\ IdlePanel /\ IdleDrawer /\ IdleRoster

settingsOther ==
    <<evalVars, aggVars, loginVars, historyVars, fnVars,
      students, filteredStudents, aLoading, aError, filterVars, currentPage,
      sortColumn, sortDirection, srvStudents, rosterReq, aTz, aEvent,
      drawerVars, rosterNetVars, formVars>>

\* the request reaches the server.  GET /settings answers with the list of
\* records; POST /settings stores a new record; PUT /settings/<id> replaces
\* the record of that id; any of them may be answered with a non-2xx status.
SettingsServer ==
    /\ sReq # NULL /\ sReq.stage = "req"
    /\ \/ /\ sReq.method = "GET"
          /\ sReq' = [sReq EXCEPT !.stage = "resp", !.outcome = "ok"]
                        @@ [data |-> sServer]
          /\ UNCHANGED sServer
       \/ /\ sReq.method = "POST"
          /\ Len(sServer) < MaxSettingsRecords
          /\ LET saved == SettingsRecord(Len(sServer) + 1, sReq.body)
             IN /\ sServer' = Append(sServer, saved)
                /\ sReq' = [sReq EXCEPT !.stage = "resp", !.outcome = "ok"]
                              @@ [data |-> saved]
       \/ /\ sReq.method = "PUT"
          /\ \E i \in DOMAIN sServer :
                /\ sServer[i]._id = sReq.id
                /\ LET saved == SettingsRecord(sReq.id, sReq.body)
                   IN /\ sServer' = [sServer EXCEPT ![i] = saved]
                      /\ sReq' = [sReq EXCEPT !.stage = "resp",
                                              !.outcome = "ok"]
                                    @@ [data |-> saved]
       \/ /\ sReq' = [sReq EXCEPT !.stage = "resp", !.outcome = "notOk"]
          /\ UNCHANGED sServer
    /\ UNCHANGED <<sSettings, sLoading, sSaving, sError, sSuccess,
                   settingsOther>>

\* fetch() rejects: the request never reaches the server, or its response
\* is lost on the way back
SettingsNetworkFailure ==
    /\ sReq # NULL /\ sReq.outcome # "throw"
    /\ sReq' = [kind |-> sReq.kind, method |-> sReq.method, id |-> sReq.id,
                body |-> sReq.body, stage |-> "resp", outcome |-> "throw"]
    /\ UNCHANGED <<sSettings, sLoading, sSaving, sError, sSuccess, sServer,
                   settingsOther>>

\* fetchSettings after its await: data[0], or the settings of a server
\* without a record when the body is an empty list or no list at all
fetchSettingsContinue ==
    /\ sReq # NULL /\ sReq.kind = "fetch" /\ sReq.stage = "resp"
    /\ CASE sReq.outcome = "ok" ->
              /\ sSettings' = IF Len(sReq.data) > 0 THEN sReq.data[1]
                              ELSE NoSettingsYet
              /\ UNCHANGED sError
         [] sReq.outcome = "notOk" ->
              /\ sSettings' = NoSettingsYet
              /\ UNCHANGED sError
         [] sReq.outcome = "throw" ->
              /\ sError' = "Failed to fetch settings"
              /\ UNCHANGED sSettings
    /\ sLoading' = FALSE
    /\ sReq' = NULL
    /\ UNCHANGED <<sSaving, sSuccess, sServer, settingsOther>>

\* a status checkbox
toggleStatus(status) ==
    /\ ~sLoading
    /\ sSettings' =
          [sSettings EXCEPT !.blockedStatuses =
              IF status \in @ THEN @ \ {status} ELSE @ \cup {status}]
    /\ UNCHANGED <<sLoading, sSaving, sError, sSuccess, sServer, sReq,
                   settingsOther>>

\* handleSave up to its await; the button is disabled while saving
handleSave ==
    /\ ~sLoading /\ ~sSaving
    /\ sSaving' = TRUE
    /\ sError' = ""
    /\ sSuccess' = ""
    /\ sReq' = SettingsRequest("save",
                               IF sSettings._id # 0 THEN "PUT" ELSE "POST",
                               sSettings._id, sSettings.blockedStatuses)
    /\ UNCHANGED <<sSettings, sLoading, sServer, settingsOther>>

\* handleSave after its await
handleSaveContinue ==
    /\ sReq # NULL /\ sReq.kind = "save" /\ sReq.stage = "resp"
    /\ CASE sReq.outcome = "ok" ->
              /\ sSettings' = sReq.data
              /\ sSuccess' = "Settings saved successfully!"
              /\ UNCHANGED sError
         [] sReq.outcome = "notOk" ->
              /\ sError' = "Failed to save settings"
              /\ UNCHANGED <<sSettings, sSuccess>>
         [] sReq.outcome = "throw" ->
              /\ sError' = "Error connecting to server"
              /\ UNCHANGED <<sSettings, sSuccess>>
    /\ sSaving' = FALSE
    /\ sReq' = NULL
    /\ UNCHANGED <<sLoading, sServer, settingsOther>>

\* setTimeout(() => setSuccess(""), 3000) fires
settingsSuccessTimeout ==
    /\ sSuccess # ""
    /\ sSuccess' = ""
    /\ UNCHANGED <<sSettings, sLoading, sSaving, sError, sServer, sReq,
                   settingsOther>>

\* the administrator loads the page again
ReloadSettings ==
    /\ sReq = NULL
    /\ MountSettings
    /\ UNCHANGED <<sServer, settingsOther>>

NextSettings ==
    \/ SettingsServer
    \/ SettingsNetworkFailure
    \/ fetchSettingsContinue
    \/ \E status \in BlockableStatuses : toggleStatus(status)
    \/ handleSave
    \/ handleSaveContinue
    \/ settingsSuccessTimeout
    \/ ReloadSettings

SpecSettings == InitSettings /\ [][NextSettings]_vars

\* a save request that is on its way to the server
SaveOnItsWay(method) ==
    sReq # NULL /\ sReq.kind = "save" /\ sReq.stage = "req"
        /\ sReq.method = method

\* C23: the page sends POST /settings only when the server holds no
\* settings record, and PUT /settings/<id> with the id of the existing
\* record otherwise; no sequence of page loads and saves, a failed settings
\* fetch included, makes a second record.
C23_SettingsSingleton ==
    /\ Len(sServer) <= 1
    /\ SaveOnItsWay("POST") => sServer = <<>>
    /\ SaveOnItsWay("PUT") => (sServer # <<>> /\ sReq.id = sServer[1]._id)

\* what the page does: POST exactly when the settings it holds have no _id,
\* PUT with the _id it holds otherwise
SaveFollowsPageId ==
    [][(sReq = NULL /\ sReq' # NULL /\ sReq'.kind = "save") =>
          /\ sReq'.method = "POST" <=> sSettings._id = 0
          /\ sReq'.method = "PUT" <=> sSettings._id # 0
          /\ sReq'.id = sSettings._id]_vars

-----------------------------------------------------------------------------
(* SpecRoster: AdminPanel with every request it sends, the StudentForm of   *)
(* its drawer, and the server's roster                                     *)

MaxRosterStudents == 26  \* students of the roster on the server at mount
MaxRosterOps == 2        \* Delete and Save clicks

\* a student of this roster: the fields the steps below read
RosterStudent(i, status) == [_id |-> i, status |-> status]

ServerRoster(n) ==
    [i \in 1..n |->
        RosterStudent(i, IF i % 2 = 0 THEN "Suspended" ELSE "Current Student")]

\* the rows whose Delete and Edit buttons are clicked
DeleteTargets == {1, 2}
EditTargets == {1}

\* the option picked in the status select of the form
FormStatusChoices == {"Suspended"}

\* the page numbers handed to goToPage: Previous on page 1 is disabled, so
\* the least is 1; the numbers of the buttons; one past them
RosterPageRequests == 1..(Ceil(MaxRosterStudents + 1, ITEMS_PER_PAGE) + 1)

\* the body of a non-2xx answer: { error: "..." }
ErrorBody == [error |-> ServerErrorText]

\* the panel is rendered; a render that throws takes the page down
Mounted == aEvent.op # "crash"

\* the mount effect has called fetchStudents()
InitRoster ==
    /\ students = <<>> /\ filteredStudents = <<>>
    /\ aLoading = TRUE /\ aError = ""
    /\ searchTerm = <<>> /\ statusFilter = "" /\ gameFilter = ""
    /\ registrationDateFilter = 0 /\ endOfClassDateFilter = 0
    /\ endOfPracticeDateFilter = 0
    /\ currentPage = 1 /\ sortColumn = "lastName" /\ sortDirection = "asc"
    /\ srvStudents = ServerRoster(MaxRosterStudents)
    /\ rosterReq = "idle" /\ aTz = 0
    /\ aEvent = Event("mount", 0)
    /\ aNet = {[id |-> 1, kind |-> "fetch", stage |-> "req"]}
    /\ aIssued = 1 /\ aApplied = 0 /\ aOps = 0
    /\ formData = NULL /\ fLoading = FALSE /\ fError = ""
    /\ IdleEval /\ IdleAgg /\ IdleLogin /\ IdleHistory /\ IdleFn
    /\ IdleDrawer /\ IdleSettings

rosterOther ==
    <<evalVars, aggVars, loginVars, historyVars, fnVars, drawerVars,
      settingsPageVars, filterVars, sortColumn, sortDirection, rosterReq, aTz>>

\* fetchStudents() up to its await: setLoading(true) and GET /users
fetchStudentsCall(net) ==
    /\ aLoading' = TRUE
    /\ aIssued' = aIssued + 1
    /\ aNet' = net \cup {[id |-> aIssued + 1, kind |-> "fetch",
                           stage |-> "req"]}

IdsOf(list) == {list[i]._id : i \in DOMAIN list}

\* a request reaches the server and is answered
RosterServer ==
    /\ \E m \in aNet :
        /\ m.stage = "req"
        /\ \/ /\ m.kind = "fetch"
              /\ aNet' = (aNet \ {m}) \cup
                           {Response(m, "ok") @@ [data |-> srvStudents]}
              /\ UNCHANGED srvStudents
           \/ /\ m.kind = "delete"
              /\ m.student \in IdsOf(srvStudents)
              /\ srvStudents' =
                    SelectSeq(srvStudents, LAMBDA s : s._id # m.student)
              /\ aNet' = (aNet \ {m}) \cup {Response(m, "ok")}
           \/ /\ m.kind = "save" /\ m.method = "PUT"
              /\ m.student \in IdsOf(srvStudents)
              /\ srvStudents' =
                    [i \in DOMAIN srvStudents |->
                        IF srvStudents[i]._id = m.student
                        THEN RosterStudent(m.student, m.body.status)
                        ELSE srvStudents[i]]
              /\ aNet' = (aNet \ {m}) \cup {Response(m, "ok")}
           \/ /\ m.kind = "save" /\ m.method = "POST"
              /\ srvStudents' =
                    Append(srvStudents,
                           RosterStudent(MaxRosterStudents + m.id,
                                         m.body.status))
              /\ aNet' = (aNet \ {m}) \cup {Response(m, "ok")}
           \/ /\ aNet' = (aNet \ {m}) \cup
                           {Response(m, "notOk") @@ [data |-> ErrorBody]}
              /\ UNCHANGED srvStudents
    /\ UNCHANGED <<students, filteredStudents, aLoading, aError, currentPage,
                   aEvent, aIssued, aApplied, aOps, formVars, rosterOther>>

\* a request fails on the network, or the body of its answer is no JSON:
\* fetch() or response.json() rejects
RosterNetworkFailure ==
    /\ \E m \in aNet :
        /\ m.stage = "req"
        /\ aNet' = (aNet \ {m}) \cup {Response(m, "throw")}
    /\ UNCHANGED <<students, filteredStudents, aLoading, aError, currentPage,
                   aEvent, srvStudents, aIssued, aApplied, aOps, formVars,
                   rosterOther>>

\* fetchStudents after its await.  The body is handed to setStudents
\* whatever the status; a body that is no list makes the next render throw.
fetchStudentsContinueRoster ==
    /\ Mounted
    /\ \E m \in aNet :
        /\ m.kind = "fetch" /\ m.stage = "resp"
        /\ aNet' = aNet \ {m}
        /\ CASE m.outcome = "ok" ->
                  /\ students' = m.data
                  /\ filterStudentsEffect(m.data, CurrentFilters)
                  /\ aApplied' = m.id
                  /\ UNCHANGED aEvent
                  /\ UNCHANGED aError
             [] m.outcome = "notOk" ->
                  /\ students' = m.data
                  /\ aApplied' = m.id
                  /\ aEvent' = Event("crash", m.id)
                  /\ UNCHANGED <<filteredStudents, currentPage, aError>>
             [] m.outcome = "throw" ->
                  /\ aError' = "Failed to fetch students"
                  /\ UNCHANGED aEvent
                  /\ UNCHANGED <<students, filteredStudents, currentPage,
                                 aApplied>>
    /\ aLoading' = FALSE
    /\ UNCHANGED <<srvStudents, aIssued, aOps, formVars, rosterOther>>

\* the Delete button of a row, confirmed: deleteStudent up to its await
deleteStudent ==
    /\ Mounted
    /\ ~LoadingScreen /\ formData = NULL
    /\ aOps < MaxRosterOps
    /\ \E id \in DeleteTargets \cap IdsOf(filteredStudents) :
          /\ aNet' = aNet \cup {[id |-> aOps + 1, kind |-> "delete",
                                  stage |-> "req", student |-> id]}
          /\ UNCHANGED aEvent
    /\ aOps' = aOps + 1
    /\ UNCHANGED <<students, filteredStudents, aLoading, aError, currentPage,
                   srvStudents, aIssued, aApplied, formVars, rosterOther>>

\* deleteStudent after its await
deleteStudentContinue ==
    /\ Mounted
    /\ \E m \in aNet :
        /\ m.kind = "delete" /\ m.stage = "resp"
        /\ CASE m.outcome = "ok" ->
                  /\ fetchStudentsCall(aNet \ {m})
                  /\ UNCHANGED aEvent
                  /\ UNCHANGED aError
             [] m.outcome = "notOk" ->
                  /\ aNet' = aNet \ {m}
                  /\ UNCHANGED aEvent
                  /\ UNCHANGED <<aLoading, aIssued, aError>>
             [] m.outcome = "throw" ->
                  /\ aNet' = aNet \ {m}
                  /\ aError' = "Failed to delete student"
                  /\ UNCHANGED aEvent
                  /\ UNCHANGED <<aLoading, aIssued>>
    /\ UNCHANGED <<students, filteredStudents, currentPage, srvStudents,
                   aApplied, aOps, formVars, rosterOther>>

\* Add New Student, or Edit of a row: the form is mounted with the fields of
\* the student (_id 0 for a new one)
openForm ==
    /\ Mounted
    /\ ~LoadingScreen /\ formData = NULL
    /\ \/ formData' = RosterStudent(0, "")
       \/ \E i \in DOMAIN filteredStudents :
             /\ filteredStudents[i]._id \in EditTargets
             /\ formData' = filteredStudents[i]
    /\ fLoading' = FALSE
    /\ fError' = ""
    /\ UNCHANGED aEvent
    /\ UNCHANGED <<students, filteredStudents, aLoading, aError, currentPage,
                   srvStudents, rosterNetVars, rosterOther>>

\* the status select of the form
setFormStatus ==
    /\ Mounted
    /\ formData # NULL
    /\ \E v \in FormStatusChoices :
          /\ v # formData.status
          /\ formData' = [formData EXCEPT !.status = v]
    /\ UNCHANGED aEvent
    /\ UNCHANGED <<students, filteredStudents, aLoading, aError, currentPage,
                   srvStudents, rosterNetVars, fLoading, fError, rosterOther>>

\* StudentForm.handleSubmit up to its await; the button is disabled while
\* loading
handleSubmit ==
    /\ Mounted
    /\ formData # NULL /\ ~fLoading
    /\ aOps < MaxRosterOps
    /\ fLoading' = TRUE
    /\ fError' = ""
    /\ aNet' = aNet \cup
                 {[id |-> aOps + 1, kind |-> "save", stage |-> "req",
                   method |-> IF formData._id # 0 THEN "PUT" ELSE "POST",
                   student |-> formData._id, body |-> formData]}
    /\ aOps' = aOps + 1
    /\ UNCHANGED aEvent
    /\ UNCHANGED <<students, filteredStudents, aLoading, aError, currentPage,
                   srvStudents, aIssued, aApplied, formData, rosterOther>>

\* mutant: a save that fails on the network closes the form
handleSubmitContinue_ClosesForm ==
    /\ Mounted
    /\ \E m \in aNet :
        /\ m.kind = "save" /\ m.stage = "resp"
        /\ CASE m.outcome = "ok" ->
                  /\ fetchStudentsCall(aNet \ {m})
                  /\ formData' = NULL
                  /\ UNCHANGED aEvent
                  /\ UNCHANGED fError
             [] m.outcome = "notOk" ->
                  /\ aNet' = aNet \ {m}
                  /\ fError' = "Failed to save student"
                  /\ UNCHANGED aEvent
                  /\ UNCHANGED <<aLoading, aIssued, formData>>
             [] m.outcome = "throw" ->
                  /\ aNet' = aNet \ {m}
                  /\ fError' = "Error connecting to server"
                  /\ formData' = NULL
                  /\ UNCHANGED aEvent
                  /\ UNCHANGED <<aLoading, aIssued>>
    /\ fLoading' = FALSE
    /\ UNCHANGED <<students, filteredStudents, aError, currentPage,
                   srvStudents, aApplied, aOps, rosterOther>>

\* handleSubmit after its await; onSave calls fetchStudents() and closes the
\* drawer, which unmounts the form
handleSubmitContinue ==
    /\ Mounted
    /\ \E m \in aNet :
        /\ m.kind = "save" /\ m.stage = "resp"
        /\ CASE m.outcome = "ok" ->
                  /\ fetchStudentsCall(aNet \ {m})
                  /\ formData' = NULL
                  /\ UNCHANGED aEvent
                  /\ UNCHANGED fError
             [] m.outcome = "notOk" ->
                  /\ aNet' = aNet \ {m}
                  /\ fError' = "Failed to save student"
                  /\ UNCHANGED aEvent
                  /\ UNCHANGED <<aLoading, aIssued, formData>>
             [] m.outcome = "throw" ->
                  /\ aNet' = aNet \ {m}
                  /\ fError' = "Error connecting to server"
                  /\ UNCHANGED aEvent
                  /\ UNCHANGED <<aLoading, aIssued, formData>>
    /\ fLoading' = FALSE
    /\ UNCHANGED <<students, filteredStudents, aError, currentPage,
                   srvStudents, aApplied, aOps, rosterOther>>

\* Cancel of the form, while no save is in flight
cancelForm ==
    /\ Mounted
    /\ formData # NULL /\ ~fLoading
    /\ formData' = NULL
    /\ fError' = ""
    /\ UNCHANGED aEvent
    /\ UNCHANGED <<students, filteredStudents, aLoading, aError, currentPage,
                   srvStudents, rosterNetVars, fLoading, rosterOther>>

NextRoster ==
    \/ RosterServer
    \/ RosterNetworkFailure
    \/ fetchStudentsContinueRoster
    \/ deleteStudent
    \/ deleteStudentContinue
    \/ openForm
    \/ setFormStatus
    \/ handleSubmit
    \/ handleSubmitContinue
    \/ cancelForm

SpecRoster == InitRoster /\ [][NextRoster]_vars

\* SpecRosterPages: the panel with its filters, sort headers and page
\* buttons while the roster is fetched and students are deleted
NextRosterPages ==
    \/ RosterServer
    \/ RosterNetworkFailure
    \/ fetchStudentsContinueRoster
    \/ deleteStudent
    \/ deleteStudentContinue
    \/ Mounted /\ setStatusFilter
    \/ Mounted /\ handleSort("pin")
    \/ Mounted /\ \E page \in RosterPageRequests : goToPage(page)

SpecRosterPages == InitRoster /\ [][NextRosterPages]_vars

\* C25: a response to an older roster fetch never overwrites the response
\* to a newer one, so that once every overlapping fetch has resolved the
\* roster held is the response to the fetch issued last.
C25_NewestFetchWins == [][aApplied' >= aApplied]_vars

\* the answers the page has not yet consumed that report a failure: a
\* non-2xx status, or a rejected fetch
FailedResponses == {m \in aNet : m.stage = "resp" /\ m.outcome # "ok"}

FailureMessageSet(m) ==
    IF m.kind = "save" THEN fError' # "" ELSE aError' # ""

\* C21: no failed request is silently swallowed: the step that consumes the
\* failed answer to a roster fetch, a student delete or a student save
\* leaves a message in the error state of the view that sent it.
C21_NoFailureSwallowed ==
    [][\A m \in FailedResponses : m \notin aNet' => FailureMessageSet(m)]_vars

\* the part of it that the code provides: a rejected fetch() and a failed
\* save are reported
ReportedFailures ==
    [][\A m \in FailedResponses :
          (m \notin aNet' /\ (m.outcome = "throw" \/ m.kind = "save"))
              => FailureMessageSet(m)]_vars

\* C29: in every state of the admin view, whatever fetches, deletions, filter
\* changes, sort changes and page clicks led to it, the current page is at
\* least 1 and at most max(1, ceil(filtered students / 25)), also when the
\* roster shrinks while its last page is shown; and a step that changes only
\* the sort leaves the current page as it is.
C29_PageStaysInRange ==
    /\ [](/\ 1 <= currentPage
          /\ currentPage <= Max(1, Ceil(Len(filteredStudents), ITEMS_PER_PAGE)))
    /\ [][(sortColumn' # sortColumn \/ sortDirection' # sortDirection)
              => currentPage' = currentPage]_vars

\* page 2 was shown when a delete took the 26th student off the roster
C29_Witness ==
    /\ Mounted
    /\ aEvent = Event("goToPage", 2)
    /\ statusFilter = ""
    /\ Len(students) = ITEMS_PER_PAGE
    /\ Len(filteredStudents) = ITEMS_PER_PAGE
    /\ currentPage = 1

\* the answers not yet consumed that report a rejected fetch()
NetworkFailures == {m \in FailedResponses : m.outcome = "throw"}

\* the error state of the view that sent the request, after the step
ViewErrorAfter(m) == IF m.kind = "save" THEN fError' ELSE aError'

\* the operation is abandoned and what the view held is kept
AbandonedKeepingState(m) ==
    /\ aNet' = aNet \ {m}
    /\ students' = students
    /\ filteredStudents' = filteredStudents
    /\ formData' = formData

CatchMessage(m) ==
    CASE m.kind = "save" -> "Error connecting to server"
      [] m.kind = "fetch" -> "Failed to fetch students"
      [] m.kind = "delete" -> "Failed to delete student"

CheckinFailureKeepsState ==
    [][(actReq # NULL /\ actReq' = NULL
        /\ error' = "Error connecting to server.") =>
          /\ student' = student
          /\ pin' = pin
          /\ hasActiveSession' = hasActiveSession
          /\ success' = success
          /\ pinReq' = pinReq]_vars

\* a step of the login view that sends a request: a PIN lookup, a check-in
\* or a check-out
LoginRequestIssued ==
    \/ pinReq' # NULL /\ pinReq' # pinReq /\ pinReq'.stage = "sent"
    \/ actReq' # NULL /\ actReq' # actReq

\* the steps that are a click of the user on Submit, Check In or Check Out
LoginClick == PinSubmit \/ handleCheckin \/ handleCheckout

\* a step that consumes the answer to a request
LoginResponseConsumed ==
    \/ pinReq # NULL /\ pinReq.stage = "response" /\ pinReq' = NULL
    \/ actReq # NULL /\ actReq' = NULL

\* C24: the login view retries nothing: a request is sent only by a click
\* of the user, and an error message is set only by the step that consumes
\* an answer, once, after which no request is in flight and loading is over.
C24_NoAutomaticRetry ==
    [][/\ LoginRequestIssued => LoginClick
       /\ (error' # error /\ error' # "") =>
             /\ LoginResponseConsumed
             /\ pinReq' = NULL /\ actReq' = NULL
             /\ ~loading']_vars

\* a check-out has failed on the network: the message is shown, the student
\* is still looked up and nothing is in flight
C24_Witness ==
    /\ error = "Error connecting to server."
    /\ student # NULL /\ hasActiveSession = "true"
    /\ actReq = NULL /\ pinReq = NULL /\ ~loading

\* the settings page: a save is sent only by a click on Save Settings, and
\* the step that sets an error message leaves no request in flight
\* (SpecSettings)
SaveNotRetried ==
    [][/\ (sReq' # NULL /\ sReq' # sReq /\ sReq'.kind = "save"
           /\ sReq'.stage = "req") => handleSave
       /\ (sError' # sError /\ sError' # "") => (sReq' = NULL /\ ~sSaving')]_vars

====
